---- MODULE Spec2Model ----
(***************************************************************************)
(* A model of the Bismuth tiling script (benemorius/bismuth):               *)
(*   - the Window Store        (src/kwinscript/engine/window_store.ts)      *)
(*   - the Driver's re-entrancy guard (src/kwinscript/driver/index.ts)      *)
(*   - the Engine and the Controller handlers that drive it.                *)
(* JavaScript arrays are 0-based; sequences here are 1-based, so every      *)
(* index that the code computes is kept 0-based and converted on access.    *)
(***************************************************************************)
EXTENDS Integers, Sequences, FiniteSets, TLC

(***************************************************************************)
(* Bounds of the model.                                                     *)
(***************************************************************************)
NumWin == 3          \* how many host windows exist
MaxLen == 4          \* longest list the raw store operations may build
MaxSignals == 5      \* how many host signals one run delivers
NumScreens == 2      \* how many screens the host has
MaxMaster == 4       \* largest numMasterTiles a handler may still raise
MaxCalls == 4        \* handler calls in one run of the engine
ScreenWidth == 120   \* width of every screen's working area
ScreenHeight == 120  \* height of every screen's working area
UntileDistance == 30 \* a tile dropped farther than this from its place floats

Win == 1..NumWin
NoWin == 0           \* stands for null / undefined where a window is expected

VARIABLES
  list,        \* WindowStoreImpl.list
  live,        \* history: windows pushed (or unshifted) and not removed since
  dupPushed,   \* history: push/unshift was called with a window already stored
  lastCall,    \* history: the last store call and the list it was applied to
  entered,     \* DriverImpl.entered
  stack,       \* the signal handlers that are running, innermost last
  emitted,     \* how many signals the host has emitted so far
  ran,         \* history: signals whose handler was started
  nested,      \* history: signals emitted while entered was true
  top,         \* history: signals emitted while no handler was running
  thrown,      \* history: signals whose handler threw
  escaped,     \* history: an exception got out of enter, to the host
  state,           \* EngineWindow.state of every window
  minimized,       \* client.minimized of every window
  group,           \* DriverWindowImpl._group of every window
  wscreen,         \* DriverWindowImpl._screen of every window
  geometry,        \* EngineWindow.geometry of every window
  numMasterTiles,  \* numMasterTiles of the current layout of every surface
  currentWindow,   \* the host's active client, as DriverImpl.currentWindow
  savedList,       \* the window list kept by the persistence proxy
  shaded,          \* client.shade of every window
  statePreviouslyAskedToChangeTo,  \* of every window: read when it is unshaded
  floatGeometry,   \* EngineWindow.floatGeometry of every window
  hidden,          \* DriverWindowImpl._hidden of every window
  lastMoveTarget,  \* ControllerImpl.lastMoveTarget
  wdesktop,        \* DriverWindowImpl._desktop of every window
  currentDesktop,  \* workspace.currentDesktop
  desktops,        \* workspace.desktops: the last desktop is the hidden one
  windowMap,       \* DriverImpl.windowMap: the clients that have a wrapper
  bound,           \* the clients whose own signals bindWindowEvents connected
  clientList,      \* workspace.clientList(): the clients the host has
  gone,            \* the clients the host has deleted
  ignoredClients,  \* the clients whose shouldIgnore is true: fixed for a run
  removedRan,      \* history: clients whose onClientRemoved has run
  started,         \* ControllerImpl.start has run
  config,          \* Config: fixed for a run
  layoutOf,        \* the current layout of every surface: fixed for a run
  surfaceGroups,   \* the groups each surface displays (kept by the proxy)
  evlog,           \* history: the arrangement steps of the last handler
  hist             \* history: the last handler and the state before it

storeVars == <<list, live, dupPushed, lastCall>>
driverVars == <<entered, stack, emitted, ran, nested, top, thrown, escaped>>
engineVars == <<state, minimized, group, wscreen, geometry, numMasterTiles,
                currentWindow, savedList, shaded,
                statePreviouslyAskedToChangeTo, floatGeometry, hidden,
                lastMoveTarget, wdesktop, currentDesktop, desktops,
                windowMap, bound, clientList, gone, ignoredClients,
                removedRan, started,
                config, layoutOf, surfaceGroups, evlog, hist>>
vars == <<list, live, dupPushed, lastCall,
          entered, stack, emitted, ran, nested, top, thrown, escaped,
          state, minimized, group, wscreen, geometry, numMasterTiles,
          currentWindow, savedList, shaded,
          statePreviouslyAskedToChangeTo, floatGeometry, hidden,
                lastMoveTarget, wdesktop, currentDesktop, desktops,
          windowMap, bound, clientList, gone, ignoredClients,
          removedRan, started,
          config, layoutOf, surfaceGroups, evlog, hist>>

(***************************************************************************)
(* Array primitives, as Array.prototype defines them.                       *)
(***************************************************************************)
Elems(l) == {l[i] : i \in 1..Len(l)}

\* Array.prototype.indexOf: the first 0-based index of w, or -1
indexOf(l, w) ==
  IF \E i \in 1..Len(l) : l[i] = w
  THEN (CHOOSE i \in 1..Len(l) : l[i] = w /\ \A j \in 1..(i-1) : l[j] # w) - 1
  ELSE -1

\* list[idx] : undefined (NoWin) outside the array
at(l, idx) == IF idx >= 0 /\ idx < Len(l) THEN l[idx + 1] ELSE NoWin

\* splice(idx, 1)
spliceDelete(l, idx) ==
  [i \in 1..(Len(l) - 1) |-> IF i <= idx THEN l[i] ELSE l[i + 1]]

\* splice(idx, 0, w) : a start past the end is clamped to the length
spliceInsert(l, idx, w) ==
  LET k == IF idx > Len(l) THEN Len(l) ELSE idx
  IN [i \in 1..(Len(l) + 1) |->
        IF i <= k THEN l[i] ELSE IF i = k + 1 THEN w ELSE l[i - 1]]

(***************************************************************************)
(* Window Store: the position-mutating operations.                          *)
(***************************************************************************)
push(l, w) == Append(l, w)

unshift(l, w) == <<w>> \o l

remove(l, w) ==
  LET idx == indexOf(l, w)
  IN IF idx >= 0 THEN spliceDelete(l, idx) ELSE l

\* a move that forgets to put the source window back
moveDropsSource(l, srcWin, destWin, after) ==
  LET srcIdx == indexOf(l, srcWin)
      destIdx == indexOf(l, destWin)
  IN IF srcIdx = -1 \/ destIdx = -1 THEN l ELSE spliceDelete(l, srcIdx)

\* a move that exchanges the source and the destination
moveExchanges(l, srcWin, destWin, after) ==
  LET srcIdx == indexOf(l, srcWin)
      destIdx == indexOf(l, destWin)
  IN IF srcIdx = -1 \/ destIdx = -1 THEN l
     ELSE [[l EXCEPT ![srcIdx + 1] = destWin] EXCEPT ![destIdx + 1] = srcWin]

\* destIdx is read before the deletion and used after it
move(l, srcWin, destWin, after) ==
  LET srcIdx == indexOf(l, srcWin)
      destIdx == indexOf(l, destWin)
  IN IF srcIdx = -1 \/ destIdx = -1 THEN l
     ELSE spliceInsert(spliceDelete(l, srcIdx),
                       IF after THEN destIdx + 1 ELSE destIdx, srcWin)

putWindowToMaster(l, w) ==
  LET idx == indexOf(l, w)
  IN IF idx = -1 THEN l ELSE spliceInsert(spliceDelete(l, idx), 0, w)

\* a swap that leaves out its second assignment
swapFirstOnly(l, alpha, beta) ==
  LET alphaIndex == indexOf(l, alpha)
      betaIndex == indexOf(l, beta)
  IN IF alphaIndex < 0 \/ betaIndex < 0 THEN l
     ELSE [l EXCEPT ![alphaIndex + 1] = beta]

swap(l, alpha, beta) ==
  LET alphaIndex == indexOf(l, alpha)
      betaIndex == indexOf(l, beta)
  IN IF alphaIndex < 0 \/ betaIndex < 0 THEN l
     ELSE [[l EXCEPT ![alphaIndex + 1] = beta] EXCEPT ![betaIndex + 1] = alpha]

contains(l, w) == \E i \in 1..Len(l) : l[i] = w

(***************************************************************************)
(* Windows, surfaces and configuration.  One activity and one desktop: a    *)
(* surface is a screen, and its id is the screen's number.                  *)
(***************************************************************************)
Screen == 0..(NumScreens - 1)
NoSurface == -1                  \* null where a surface is expected
Group == {"a", "b", "c"}
NoGroup == ""                    \* undefined where a group is expected
SpawnLocation == {"master", "beforeFocused", "afterFocused", "end", "floating"}
LayoutKind == {"tile", "monocle"}

Rect(x, y, w, h) == [x |-> x, y |-> y, width |-> w, height |-> h]
NoRect == Rect(0, 0, 0, 0)

\* DriverSurfaceImpl.workingArea: the screens stand side by side
workingArea(s) == Rect(s * ScreenWidth, 0, ScreenWidth, ScreenHeight)

DefaultConfig ==
  [newWindowSpawnLocation |-> "end",
   maximizeSoleTile |-> FALSE,
   limitTileWidthRatio |-> <<0, 1>>,
   moveBetweenSurfaces |-> TRUE,
   untileByDragging |-> TRUE,
   mouseDragInsert |-> TRUE]

NoHist == [op |-> "none", w |-> NoWin, nmt |-> 0, paired |-> FALSE, calls |-> 0]

EngineFresh ==
  /\ state = [w \in Win |-> "Unmanaged"]
  /\ minimized = [w \in Win |-> FALSE]
  /\ group = [w \in Win |-> NoGroup]
  /\ wscreen = [w \in Win |-> 0]
  /\ geometry = [w \in Win |-> NoRect]
  /\ numMasterTiles = [s \in Screen |-> 1]
  /\ currentWindow = NoWin
  /\ savedList = <<>>
  /\ shaded = [w \in Win |-> FALSE]
  /\ statePreviouslyAskedToChangeTo = [w \in Win |-> "Unmanaged"]
  /\ floatGeometry = [w \in Win |-> NoRect]
  /\ hidden = [w \in Win |-> FALSE]
  /\ lastMoveTarget = NoWin
  /\ wdesktop = [w \in Win |-> 1]
  /\ currentDesktop = 1
  /\ desktops = 2
  /\ windowMap = {}
  /\ bound = {}
  /\ clientList = {}
  /\ gone = {}
  /\ ignoredClients = {}
  /\ removedRan = {}
  /\ started = TRUE
  /\ config = DefaultConfig
  /\ layoutOf = [s \in Screen |-> "tile"]
  /\ surfaceGroups = [s \in Screen |-> {}]
  /\ evlog = <<>>
  /\ hist = NoHist

(***************************************************************************)
(* The raw store driven by arbitrary calls.                                 *)
(***************************************************************************)
NoCall == [op |-> "none", a |-> NoWin, b |-> NoWin, after |-> FALSE, before |-> <<>>]

Call(op, a, b, after) == [op |-> op, a |-> a, b |-> b, after |-> after, before |-> list]

StoreFresh ==
  /\ list = <<>>
  /\ live = {}
  /\ dupPushed = FALSE
  /\ lastCall = NoCall

DriverFresh ==
  /\ entered = FALSE
  /\ stack = <<>>
  /\ emitted = 0
  /\ ran = {}
  /\ nested = {}
  /\ top = {}
  /\ thrown = {}
  /\ escaped = FALSE

StoreInit == StoreFresh /\ DriverFresh /\ EngineFresh

StorePush(w) ==
  /\ Len(list) < MaxLen
  /\ list' = push(list, w)
  /\ live' = live \cup {w}
  /\ dupPushed' = (dupPushed \/ contains(list, w))
  /\ lastCall' = Call("push", w, NoWin, FALSE)
  /\ UNCHANGED <<driverVars, engineVars>>

StoreUnshift(w) ==
  /\ Len(list) < MaxLen
  /\ list' = unshift(list, w)
  /\ live' = live \cup {w}
  /\ dupPushed' = (dupPushed \/ contains(list, w))
  /\ lastCall' = Call("unshift", w, NoWin, FALSE)
  /\ UNCHANGED <<driverVars, engineVars>>

StoreRemove(w) ==
  /\ list' = remove(list, w)
  /\ live' = live \ {w}
  /\ lastCall' = Call("remove", w, NoWin, FALSE)
  /\ UNCHANGED dupPushed
  /\ UNCHANGED <<driverVars, engineVars>>

StoreMove(a, b, after) ==
  /\ list' = move(list, a, b, after)
  /\ lastCall' = Call("move", a, b, after)
  /\ UNCHANGED <<live, dupPushed>>
  /\ UNCHANGED <<driverVars, engineVars>>

StoreSwap(a, b) ==
  /\ list' = swap(list, a, b)
  /\ lastCall' = Call("swap", a, b, FALSE)
  /\ UNCHANGED <<live, dupPushed>>
  /\ UNCHANGED <<driverVars, engineVars>>

StorePutWindowToMaster(w) ==
  /\ list' = putWindowToMaster(list, w)
  /\ lastCall' = Call("putWindowToMaster", w, NoWin, FALSE)
  /\ UNCHANGED <<live, dupPushed>>
  /\ UNCHANGED <<driverVars, engineVars>>

StoreNext ==
  \/ \E w \in Win : StorePush(w)
  \/ \E w \in Win : StoreUnshift(w)
  \/ \E w \in Win : StoreRemove(w)
  \/ \E a \in Win, b \in Win, after \in BOOLEAN : StoreMove(a, b, after)
  \/ \E a \in Win, b \in Win : StoreSwap(a, b)
  \/ \E w \in Win : StorePutWindowToMaster(w)

SpecStore == StoreInit /\ [][StoreNext]_vars

(***************************************************************************)
(* Claims about the raw store.                                              *)
(***************************************************************************)
NoDup(l) == \A i \in 1..Len(l), j \in 1..Len(l) : l[i] = l[j] => i = j

\* C1 (as stated): whatever push, unshift, remove, move and swap calls are
\* made, the list never holds a window twice and holds every window that was
\* pushed and not removed.
C1_Original == NoDup(list) /\ live \subseteq Elems(list)

\* C1 (amended): as long as push and unshift were only ever called with a
\* window that was not in the store, the list holds no window twice and holds
\* every window that was pushed and not removed.
C1_StoreKeepsIdentities ==
  ~dupPushed => (NoDup(list) /\ live \subseteq Elems(list))

\* a move or a swap has reordered a store of three distinct windows
C1_Witness ==
  /\ ~dupPushed
  /\ Len(list) = 3
  /\ lastCall.op \in {"move", "swap"}
  /\ lastCall.before # list

\* C2: after move(a, b) on two distinct stored windows a is immediately
\* before b, after move(a, b, true) immediately after b, wherever a and b
\* were; with a or b absent the list is unchanged.
C2_MoveLandsNextToDest ==
  lastCall.op = "move" =>
    IF contains(lastCall.before, lastCall.a) /\ contains(lastCall.before, lastCall.b)
    THEN (lastCall.a # lastCall.b /\ NoDup(lastCall.before)) =>
           indexOf(list, lastCall.a) =
             indexOf(list, lastCall.b) + (IF lastCall.after THEN 1 ELSE -1)
    ELSE list = lastCall.before

\* move(a, b) was called with a stored in front of b
C2_Witness ==
  /\ lastCall.op = "move"
  /\ NoDup(lastCall.before)
  /\ contains(lastCall.before, lastCall.a)
  /\ contains(lastCall.before, lastCall.b)
  /\ indexOf(lastCall.before, lastCall.a) < indexOf(lastCall.before, lastCall.b)

(***************************************************************************)
(* Driver: every host signal is bound through connect, whose callback runs  *)
(* the handler inside enter.  A handler changes host state, and the host    *)
(* emits the signals of that change synchronously, inside the handler.      *)
(***************************************************************************)
Thrown == {"string", "Error"}   \* what the script throws: strings and Errors

\* enter with the test of the flag left out
enterReturnsEarlyNever(flag) == FALSE

\* enter: if (this.entered) return;
enterReturnsEarly(flag) == flag

\* a catch that lets the exception go on to the caller
catchSwallowsNothing(kind) == FALSE

\* enter: catch (e) { log(e.name, e.message) }  -- reading .name of a string
\* or of an Error does not throw, so the exception ends here
catchSwallows(kind) == kind \in Thrown

\* a reset that only the normal return reaches (no finally)
enteredAfterNoFinally(threw) == threw

\* enter: finally { this.entered = false }
enteredAfter(threw) == FALSE

Pop(s) == SubSeq(s, 1, Len(s) - 1)

\* the host emits a signal while no handler is running
Emit ==
  /\ stack = <<>>
  /\ emitted < MaxSignals
  /\ emitted' = emitted + 1
  /\ top' = top \cup {emitted + 1}
  /\ IF enterReturnsEarly(entered)
     THEN UNCHANGED <<entered, stack, ran>>
     ELSE /\ entered' = TRUE
          /\ stack' = Append(stack, emitted + 1)
          /\ ran' = ran \cup {emitted + 1}
  /\ nested' = IF entered THEN nested \cup {emitted + 1} ELSE nested
  /\ UNCHANGED <<thrown, escaped>>
  /\ UNCHANGED <<storeVars, engineVars>>

\* the running handler changes host state and the host emits a signal at once
EmitNested ==
  /\ stack # <<>>
  /\ emitted < MaxSignals
  /\ emitted' = emitted + 1
  /\ IF enterReturnsEarly(entered)
     THEN UNCHANGED <<entered, stack, ran>>
     ELSE /\ entered' = TRUE
          /\ stack' = Append(stack, emitted + 1)
          /\ ran' = ran \cup {emitted + 1}
  /\ nested' = IF entered THEN nested \cup {emitted + 1} ELSE nested
  /\ UNCHANGED <<top, thrown, escaped>>
  /\ UNCHANGED <<storeVars, engineVars>>

\* the innermost handler returns
HandlerReturns ==
  /\ stack # <<>>
  /\ stack' = Pop(stack)
  /\ entered' = enteredAfter(FALSE)
  /\ UNCHANGED <<emitted, ran, nested, top, thrown, escaped>>
  /\ UNCHANGED <<storeVars, engineVars>>

\* the innermost handler throws
HandlerThrows(kind) ==
  /\ stack # <<>>
  /\ thrown' = thrown \cup {stack[Len(stack)]}
  /\ entered' = enteredAfter(TRUE)
  /\ IF catchSwallows(kind)
     THEN /\ stack' = Pop(stack)
          /\ UNCHANGED escaped
     ELSE /\ stack' = <<>>
          /\ escaped' = TRUE
  /\ UNCHANGED <<emitted, ran, nested, top>>
  /\ UNCHANGED <<storeVars, engineVars>>

DriverInit == StoreFresh /\ DriverFresh /\ EngineFresh

DriverNext ==
  \/ Emit
  \/ EmitNested
  \/ HandlerReturns
  \/ \E kind \in Thrown : HandlerThrows(kind)

SpecDriver == DriverInit /\ [][DriverNext]_vars

(***************************************************************************)
(* Claims about the driver's guard.                                         *)
(***************************************************************************)
\* C3: a signal emitted while entered is true is dropped: its handler is not
\* started then (no handler ever runs inside another) and is never started
\* later either.
C3_NestedSignalsDropped ==
  /\ nested \cap ran = {}
  /\ Len(stack) <= 1

\* a signal was dropped inside a handler, the handler has finished and a later
\* signal has been handled since
C3_Witness ==
  /\ stack = <<>>
  /\ \E d \in nested : \E r \in ran : r > d

\* C4: once a top-level handler has finished, by return or by throw, entered
\* is false, no exception has reached the host, and every signal that was
\* emitted with no handler running got its handler started.
C4_GuardReleased ==
  /\ stack = <<>> => ~entered
  /\ ~escaped
  /\ top \subseteq ran

\* a handler threw, and a signal emitted after that was handled
C4_Witness ==
  /\ stack = <<>>
  /\ \E t \in thrown : \E r \in ran \cap top : r > t

(***************************************************************************)
(* Engine.  A handler is a function of the engine's state st, a record of   *)
(* the fields the handlers write; the actions further down hand the         *)
(* variables to the handler and store what it returns.                      *)
(***************************************************************************)
Cur ==
  [list |-> list, state |-> state, minimized |-> minimized, group |-> group,
   screen |-> wscreen, geometry |-> geometry, nmt |-> numMasterTiles,
   currentWindow |-> currentWindow, saved |-> savedList, log |-> <<>>,
   shaded |-> shaded, asked |-> statePreviouslyAskedToChangeTo,
   floatGeometry |-> floatGeometry, lastMoveTarget |-> lastMoveTarget,
   desktop |-> wdesktop, currentDesktop |-> currentDesktop,
   desktops |-> desktops,
   ignored |-> [w \in Win |-> FALSE]]

\* DriverWindowImpl.on, for the surface of screen s on the current desktop;
\* there is one activity and no window is on all desktops
on(st, w, s) ==
  \/ st.group[w] # NoGroup /\ st.group[w] \in surfaceGroups[s]
  \/ st.desktop[w] = st.currentDesktop /\ st.screen[w] = s

visibleOn(st, w, s) == ~st.minimized[w] /\ on(st, w, s)

\* DriverWindowImpl.shouldIgnore: the client is special or transient, or of an
\* ignored class, title or role; the host says which when it hands it over
shouldIgnore(st, w) == st.ignored[w]

\* DriverWindowImpl.shouldFloat: the clients are ordinary windows (resizable,
\* not modal, of no floating class), so only the spawn policy makes them float
shouldFloat(w) == config.newWindowSpawnLocation = "floating"

\* EngineWindow.tiled: the window is in a tiled state
tiled(st, w) == st.state[w] \in {"Tiled", "Maximized"}

\* EngineWindow.tileable: not floating, not minimized (and not ignored)
tileable(st, w) == tiled(st, w) /\ ~st.minimized[w]

\* EngineWindow.surface: the surface of the window's screen
surfaceOf(st, w) == st.screen[w]

visibleWindowsOn(st, s) == SelectSeq(st.list, LAMBDA w : visibleOn(st, w, s))

visibleTiledWindowsOn(st, s) ==
  SelectSeq(st.list, LAMBDA w : tiled(st, w) /\ visibleOn(st, w, s))

visibleTileableWindowsOn(st, s) ==
  SelectSeq(st.list, LAMBDA w : tileable(st, w) /\ visibleOn(st, w, s))

tileableWindowsOn(st, s) ==
  SelectSeq(st.list, LAMBDA w : tileable(st, w) /\ surfaceOf(st, w) = s)

tiledWindowsIn(st, g) ==
  SelectSeq(st.list,
            LAMBDA w : (tileable(st, w) \/ st.minimized[w]) /\ st.group[w] = g)

\* an allWindowsOn that leaves out the minimized windows
allWindowsOnShown(st, s) == SelectSeq(st.list, LAMBDA w : visibleOn(st, w, s))

allWindowsOn(st, s) == SelectSeq(st.list, LAMBDA w : on(st, w, s))

\* an isInMasterStack that looks the window up among the visible tiles only
isInMasterStackVisibleOnly(st, window, stackSize) ==
  LET windowStack ==
        SelectSeq(st.list, LAMBDA w : tileable(st, w) /\ st.group[w] = st.group[window])
      foundIndex == indexOf(windowStack, window)
  IN 0 <= foundIndex /\ foundIndex < stackSize

isInMasterStack(st, window, stackSize) ==
  LET windowStack ==
        SelectSeq(tiledWindowsIn(st, st.group[window]),
                  LAMBDA win : ~st.minimized[win] \/ win = window)
      foundIndex == indexOf(windowStack, window)
  IN 0 <= foundIndex /\ foundIndex < stackSize

\* EngineImpl.saveWindows: the ids of the list go to the proxy
saveWindows(st) == [st EXCEPT !.saved = st.list]

(***************************************************************************)
(* Layouts.  "tile" is the master and stack layout: the first numMasterTiles*)
(* tiles share the left half, the others the right half; fewer tiles than   *)
(* that, or no master at all, share the whole area.  "monocle" has no       *)
(* numMasterTiles and gives every tile the whole area.                      *)
(***************************************************************************)
stackable(s) == layoutOf[s] = "tile"

\* the rectangle of the i-th (0-based) of len tiles
tileRect(area, n, len, i) ==
  IF n = 0 \/ len <= n
  THEN Rect(area.x, area.y + i * (area.height \div len),
            area.width, area.height \div len)
  ELSE IF i < n
  THEN Rect(area.x, area.y + i * (area.height \div n),
            area.width \div 2, area.height \div n)
  ELSE Rect(area.x + area.width \div 2,
            area.y + (i - n) * (area.height \div (len - n)),
            area.width - area.width \div 2, area.height \div (len - n))

\* WindowsLayout.apply: every tile gets a rectangle and the state Tiled
apply(st, s, tiles, area) ==
  [st EXCEPT
     !.geometry = [w \in Win |->
        IF ~contains(tiles, w) THEN st.geometry[w]
        ELSE IF layoutOf[s] = "monocle" THEN area
        ELSE tileRect(area, st.nmt[s], Len(tiles), indexOf(tiles, w))],
     !.state = [w \in Win |->
        IF contains(tiles, w) THEN "Tiled" ELSE st.state[w]]]

\* EngineImpl.getTilingArea: the screen gaps are zero
getTilingArea(area) == area

(***************************************************************************)
(* Arrangement.  Every step notes itself in st.log as it runs.              *)
(***************************************************************************)
\* n: for a step, how many visible windows of s were Undecided when it ran
Event(k, s, w, n) == [k |-> k, s |-> s, w |-> w, n |-> n]

\* a handler that may take window to another surface starts with a note of
\* every surface the window is on
noteWas(st, window) ==
  [st EXCEPT !.log =
     st.log \o SelectSeq([i \in 1..NumScreens |-> Event("was", i - 1, window, 0)],
                         LAMBDA e : on(st, window, e.s))]

\* showNotification: the text is noted among the steps of the handler
showNotification(st, text) ==
  [st EXCEPT !.log = Append(st.log, Event(text, NoSurface, NoWin, 0))]

\* a handler that assigns a state to window, outside an arrangement, notes it
noteState(st, window) ==
  [st EXCEPT !.log = Append(st.log, Event("state", st.screen[window], window, 0))]

undecidedOn(st, s) ==
  Len(SelectSeq(visibleWindowsOn(st, s), LAMBDA w : st.state[w] = "Undecided"))

\* the forEach of arrangeScreen and of manage: every visible Undecided window
\* becomes Floating or Tiled
classify(st, s) ==
  [st EXCEPT
     !.state = [w \in Win |->
        IF contains(visibleWindowsOn(st, s), w) /\ st.state[w] = "Undecided"
        THEN (IF shouldFloat(w) THEN "Floating" ELSE "Tiled")
        ELSE st.state[w]]]

\* arrangeScreen: set the state of the new windows
classifyStep(st, s) ==
  [classify(st, s) EXCEPT
     !.log = Append(st.log, Event("classify", s, NoWin, undecidedOn(st, s)))]

\* a second step of arrangeScreen that gives every tile to the layout
layoutStepAlwaysApply(st, s) ==
  LET tileableWindows == visibleTileableWindowsOn(st, s)
      noted == [st EXCEPT !.log =
                  Append(st.log, Event("layout", s, NoWin, undecidedOn(st, s)))]
  IN IF Len(tileableWindows) > 0
     THEN apply(noted, s, tileableWindows, getTilingArea(workingArea(s)))
     ELSE st

\* arrangeScreen: maximize the sole tile, or apply the layout; the note names
\* the window when it is maximized and no window when apply is called
layoutStep(st, s) ==
  LET tileableWindows == visibleTileableWindowsOn(st, s)
      noted(w) == [st EXCEPT !.log =
                     Append(st.log, Event("layout", s, w, undecidedOn(st, s)))]
  IN IF config.maximizeSoleTile /\ Len(tileableWindows) = 1
     THEN [noted(tileableWindows[1]) EXCEPT
             !.state[tileableWindows[1]] = "Maximized",
             !.geometry[tileableWindows[1]] = workingArea(s)]
     ELSE IF Len(tileableWindows) > 0
     THEN apply(noted(NoWin), s, tileableWindows, getTilingArea(workingArea(s)))
     ELSE st

\* arrangeScreen: limit the width of the tiles
clampStep(st, s) ==
  LET maxWidth == (workingArea(s).height * config.limitTileWidthRatio[1])
                     \div config.limitTileWidthRatio[2]
      tileableWindows == visibleTileableWindowsOn(st, s)
      wide(w) == /\ contains(tileableWindows, w)
                 /\ tiled(st, w)
                 /\ st.geometry[w].width > maxWidth
  IN IF config.limitTileWidthRatio[1] > 0 /\ layoutOf[s] # "monocle"
     THEN [st EXCEPT
             !.geometry = [w \in Win |->
                IF wide(w)
                THEN Rect(st.geometry[w].x + (st.geometry[w].width - maxWidth) \div 2,
                          st.geometry[w].y, maxWidth, st.geometry[w].height)
                ELSE st.geometry[w]],
             !.log = Append(st.log, Event("clamp", s, NoWin, undecidedOn(st, s)))]
     ELSE st

\* an arrangeScreen that applies the layout before it classifies
arrangeScreenLayoutFirst(st, s) == clampStep(classifyStep(layoutStep(st, s), s), s)

arrangeScreen(st, s) == clampStep(layoutStep(classifyStep(st, s), s), s)

RECURSIVE commitEach(_, _, _)
\* commitArrangement's loop: win.surface = surface; win.commit()
commitEach(st, s, ws) ==
  IF ws = <<>> THEN st
  ELSE commitEach([st EXCEPT !.screen[Head(ws)] = s,
                             !.log = Append(st.log, Event("commit", s, Head(ws), 0))],
                  s, Tail(ws))

commitArrangement(st, s) == commitEach(st, s, allWindowsOn(st, s))

\* arrange(surface): null is refused, a surface is arranged and committed
arrange(st, s) ==
  IF s = NoSurface THEN st ELSE commitArrangement(arrangeScreen(st, s), s)

(***************************************************************************)
(* Engine: windows come and go.                                             *)
(***************************************************************************)
\* a manage that puts every window at the end of the store
spawnAtEnd(st, window) == push(st.list, window)

\* manage: the window goes into the store where the spawn setting says
spawnAt(st, window) ==
  LET cw == st.currentWindow
      spawn == config.newWindowSpawnLocation
  IN IF spawn = "master" THEN unshift(st.list, window)
     ELSE IF cw # NoWin /\ spawn = "beforeFocused"
     THEN move(push(st.list, window), window, cw, FALSE)
     ELSE IF cw # NoWin /\ spawn = "afterFocused"
     THEN move(push(st.list, window), window, cw, TRUE)
     ELSE push(st.list, window)

\* manage, up to the test of the master stack: the window is Undecided and in
\* the store, the list is saved, the visible windows of its surface are
\* classified
manageInserted(st, window) ==
  LET s1 == saveWindows([st EXCEPT !.state[window] = "Undecided",
                                   !.list = spawnAt(st, window)])
  IN classify(s1, surfaceOf(s1, window))

\* manage of a window that is not ignored
manageAccepted(st, window) ==
  LET s2 == manageInserted(st, window)
      surf == surfaceOf(s2, window)
      n == s2.nmt[surf]
      destWindow == at(tileableWindowsOn(s2, surf), n)
  IN IF stackable(surf) /\ isInMasterStack(s2, window, n)
     THEN saveWindows([s2 EXCEPT
                         !.list = move(s2.list, window, destWindow, FALSE),
                         !.nmt[surf] = n + 1])
     ELSE s2

\* a manage that does not ask whether the window is ignored
manageWithoutRefusal(st, window) == manageAccepted(st, window)

manage(st, window) ==
  IF shouldIgnore(st, window) THEN st ELSE manageAccepted(st, window)

\* an unmanage that leaves numMasterTiles as it is
unmanageNoShrink(st, window) ==
  arrange([st EXCEPT !.list = remove(st.list, window)], st.screen[window])

unmanage(st, window) ==
  LET surf == st.screen[window]
      n == st.nmt[surf]
      s1 == IF stackable(surf) /\ isInMasterStack(st, window, n)
            THEN [st EXCEPT !.nmt[surf] = n - 1]
            ELSE st
  IN arrange([s1 EXCEPT !.list = remove(s1.list, window)], surf)

(***************************************************************************)
(* Engine: master and stack.                                                *)
(***************************************************************************)
\* a toggleFloat that floats every window
toggleFloatFloats(st, window) ==
  arrange(noteState([st EXCEPT !.state[window] = "Floating"], window),
          surfaceOf(st, window))

\* a toggleFloat that does not arrange
toggleFloatOnly(st, window) ==
  noteState([st EXCEPT !.state[window] =
               IF ~tileable(st, window) THEN "Tiled" ELSE "Floating"],
            window)

toggleFloat(st, window) ==
  arrange(noteState([st EXCEPT !.state[window] =
                       IF ~tileable(st, window) THEN "Tiled" ELSE "Floating"],
                    window),
          surfaceOf(st, window))

setMaster(st, window) ==
  arrange(saveWindows([st EXCEPT !.list = putWindowToMaster(st.list, window)]),
          st.screen[window])

\* the stack is read first; setMaster, when it is called, is not followed by
\* a return
moveToMasterStack(st, window) ==
  LET surf == surfaceOf(st, window)
      n == st.nmt[surf]
      masterStack == visibleTileableWindowsOn(st, surf)
      s1 == IF Len(masterStack) = 0 \/ n = 0 THEN setMaster(st, window) ELSE st
      destWindow == at(masterStack, n - 1)
  IN IF window = NoWin THEN st
     ELSE IF ~stackable(surf)
     THEN setMaster(showNotification(st, "Layout isn't stackable"), window)
     ELSE [s1 EXCEPT !.list = move(s1.list, window, destWindow, TRUE)]

\* a cycleWindowBetweenStacks that takes every layout for a stackable one
cycleWindowBetweenStacksAnyLayout(st) ==
  LET win == st.currentWindow
      surf == surfaceOf(st, win)
      n == st.nmt[surf]
      demoted == moveToMasterStack(
                   [showNotification(st, "Demote from master stack")
                      EXCEPT !.nmt[surf] = n - 1], win)
      moved == moveToMasterStack(showNotification(st, "Promote to master stack"), win)
      promoted == [moved EXCEPT !.nmt[surf] = n + 1]
  IN IF win = NoWin THEN st
     ELSE IF isInMasterStack(st, win, n)
     THEN arrange(saveWindows(demoted), demoted.screen[win])
     ELSE arrange(saveWindows(promoted), promoted.screen[win])

cycleWindowBetweenStacks(st) ==
  LET win == st.currentWindow
      surf == surfaceOf(st, win)
      n == st.nmt[surf]
      demoted == moveToMasterStack(
                   [showNotification(st, "Demote from master stack")
                      EXCEPT !.nmt[surf] = n - 1], win)
      moved == moveToMasterStack(showNotification(st, "Promote to master stack"), win)
      promoted == [moved EXCEPT !.nmt[surf] = n + 1]
  IN IF win = NoWin THEN st
     ELSE IF ~stackable(surf)
     THEN setMaster(showNotification(st, "Layout isn't stackable"), win)
     ELSE IF isInMasterStack(st, win, n)
     THEN arrange(saveWindows(demoted), demoted.screen[win])
     ELSE arrange(saveWindows(promoted), promoted.screen[win])

\* an onWindowMinimized that takes every window for a master
onWindowMinimizedUnguarded(st, window) ==
  LET s0 == [st EXCEPT !.minimized[window] = TRUE]
      surf == surfaceOf(s0, window)
  IN IF ~stackable(surf) THEN arrange(s0, surf)
     ELSE arrange([s0 EXCEPT !.nmt[surf] = s0.nmt[surf] - 1], surf)

\* clientMinimized: the driver sets the flag, the controller does the rest
onWindowMinimized(st, window) ==
  LET s0 == [st EXCEPT !.minimized[window] = TRUE]
      surf == surfaceOf(s0, window)
      n == s0.nmt[surf]
  IN IF ~stackable(surf) THEN arrange(s0, surf)
     ELSE IF isInMasterStack(s0, window, n)
     THEN arrange([s0 EXCEPT !.nmt[surf] = n - 1], surf)
     ELSE arrange(s0, surf)

onWindowUnminimized(st, window) ==
  LET s0 == [st EXCEPT !.minimized[window] = FALSE]
      surf == surfaceOf(s0, window)
      s1 == moveToMasterStack(s0, window)
  IN IF ~stackable(surf) THEN arrange(s0, surf)
     ELSE arrange([s1 EXCEPT !.nmt[surf] = s1.nmt[surf] + 1],
                  surfaceOf(s1, window))

(***************************************************************************)
(* Engine: neighbours and surfaces.                                         *)
(***************************************************************************)
Dir == {"up", "down", "left", "right"}

maxX(r) == r.x + r.width
maxY(r) == r.y + r.height
centerX(r) == r.x + r.width \div 2
centerY(r) == r.y + r.height \div 2

Min(S) == CHOOSE m \in S : \A o \in S : m <= o
Max(S) == CHOOSE m \in S : \A o \in S : m >= o

\* the two ranges share more than a point
overlap(min1, max1, min2, max2) ==
  Min({max1, max2}) - Max({min1, min2}) > 0

\* the orders in which the windows may have been focused last
Recency == {r \in [Win -> 1..NumWin] : \A v, w \in Win : r[v] = r[w] => v = w}

getNeighborCandidates(st, basis, dir) ==
  LET shown == SelectSeq(st.list,
                 LAMBDA w : tiled(st, w) /\ \E s \in Screen : visibleOn(st, w, s))
      sign == IF dir \in {"down", "right"} THEN 1 ELSE -1
  IN IF dir \in {"up", "down"}
     THEN SelectSeq(shown, LAMBDA w :
            /\ st.geometry[w].y * sign > basis.y * sign
            /\ overlap(basis.x, maxX(basis), st.geometry[w].x, maxX(st.geometry[w])))
     ELSE SelectSeq(shown, LAMBDA w :
            /\ st.geometry[w].x * sign > basis.x * sign
            /\ overlap(basis.y, maxY(basis), st.geometry[w].y, maxY(st.geometry[w])))

\* candidates is not empty
getClosestRelativWindowCorner(st, candidates, dir) ==
  LET ws == Elems(candidates)
  IN CASE dir = "up" -> Max({0} \cup {maxY(st.geometry[w]) : w \in ws})
       [] dir = "down" -> Min({st.geometry[w].y : w \in ws})
       [] dir = "left" -> Max({0} \cup {maxX(st.geometry[w]) : w \in ws})
       [] dir = "right" -> Min({st.geometry[w].x : w \in ws})

\* a choice of the closest windows that keeps every candidate
getClosestRelativeWindowAny(st, candidates, dir, closestPoint) == candidates

getClosestRelativeWindow(st, candidates, dir, closestPoint) ==
  SelectSeq(candidates, LAMBDA w :
    CASE dir = "up" -> maxY(st.geometry[w]) > closestPoint - 5
      [] dir = "down" -> st.geometry[w].y < closestPoint + 5
      [] dir = "left" -> maxX(st.geometry[w]) > closestPoint - 5
      [] dir = "right" -> st.geometry[w].x < closestPoint + 5)

\* the most recently used of the closest windows, by the recency order rank
getNeighborByDirection(st, basis, dir, rank) ==
  LET neighborCandidates == getNeighborCandidates(st, basis, dir)
      closestWindows ==
        getClosestRelativeWindow(st, neighborCandidates, dir,
          getClosestRelativWindowCorner(st, neighborCandidates, dir))
  IN IF Len(neighborCandidates) = 0 THEN NoWin
     ELSE CHOOSE w \in Elems(closestWindows) :
            \A v \in Elems(closestWindows) : rank[w] <= rank[v]

\* focusDir: without a focused window the first visible window of the current
\* surface is focused; with one, its neighbour in the direction, if it has one
focusDir(st, dir, rank, currentSurface) ==
  LET window == st.currentWindow
      tiles == visibleWindowsOn(st, currentSurface)
      neighbor == getNeighborByDirection(st, st.geometry[window], dir, rank)
  IN IF window = NoWin
     THEN (IF Len(tiles) > 0 THEN [st EXCEPT !.currentWindow = tiles[1]] ELSE st)
     ELSE IF neighbor # NoWin THEN [st EXCEPT !.currentWindow = neighbor]
     ELSE st

\* the square of Math.hypot: it orders the distances alike
distance2(s, r) ==
  (centerX(workingArea(s)) - centerX(r)) * (centerX(workingArea(s)) - centerX(r))
  + (centerY(workingArea(s)) - centerY(r)) * (centerY(workingArea(s)) - centerY(r))

\* screens: the candidates, in the order of ControllerImpl.screens()
findClosestSurface(st, window, dir, screens) ==
  LET g == st.geometry[window]
      fits(s) ==
        CASE dir = "up" ->
               /\ centerY(workingArea(s)) < centerY(g)
               /\ overlap(workingArea(s).x, maxX(workingArea(s)), g.x, maxX(g))
          [] dir = "down" ->
               /\ centerY(workingArea(s)) > centerY(g)
               /\ overlap(workingArea(s).x, maxX(workingArea(s)), g.x, maxX(g))
          [] dir = "left" ->
               /\ centerX(workingArea(s)) < centerX(g)
               /\ overlap(workingArea(s).y, maxY(workingArea(s)), g.y, maxY(g))
          [] dir = "right" ->
               /\ centerX(workingArea(s)) > centerX(g)
               /\ overlap(workingArea(s).y, maxY(workingArea(s)), g.y, maxY(g))
      screenCandidates == {s \in screens : fits(s)}
  IN IF screenCandidates = {} THEN NoSurface
     ELSE CHOOSE s \in screenCandidates :
            \A o \in screenCandidates :
              \/ distance2(s, g) < distance2(o, g)
              \/ distance2(s, g) = distance2(o, g) /\ s <= o

moveWindowToSurface(st, window, toSurface) ==
  LET fromSurface == surfaceOf(st, window)
  IN arrange(arrange(st, fromSurface), toSurface)

moveToSurfaceDir(st, dir) ==
  LET win == st.currentWindow
      closestScreen ==
        findClosestSurface(st, win, dir, Screen \ {surfaceOf(st, win)})
  IN IF win = NoWin THEN st
     ELSE IF closestScreen = NoSurface THEN st
     ELSE moveWindowToSurface(st, win, closestScreen)

\* two surfaces compared as objects, where the two are equal by id
sameSurfaceById(a, b) == a = b

\* closestSurface == neighbor.surface compares two objects: one that
\* DriverImpl.screens has just made, one that the window's surface getter
\* makes when it is read.  They are never the same object.
sameSurface(a, b) == FALSE

swapDirection(st, dir, rank) ==
  LET window == st.currentWindow
      surf == surfaceOf(st, window)
      neighbor == getNeighborByDirection(st, st.geometry[window], dir, rank)
      iBefore == indexOf(visibleWindowsOn(st, surf), window)
      moved == [st EXCEPT !.list = move(st.list, window, neighbor, FALSE)]
      iAfter == indexOf(visibleWindowsOn(moved, surf), window)
      swapped == IF iBefore = iAfter
                 THEN [moved EXCEPT !.list = swap(moved.list, window, neighbor)]
                 ELSE moved
      closestSurface == findClosestSurface(st, window, dir, Screen \ {surf})
      \* the branch of a neighbour on the closest surface
      oldWindowPosition == st.geometry[window]
      entering == arrangeScreen(
                    [st EXCEPT !.screen[window] = closestSurface],
                    closestSurface)
      closestSlot == getNeighborByDirection(entering, oldWindowPosition, dir, rank)
      slotted == IF closestSlot # NoWin
                 THEN [entering EXCEPT !.list = move(entering.list, window, closestSlot, FALSE)]
                 ELSE entering
  IN IF window = NoWin THEN st
     ELSE IF neighbor # NoWin /\ surfaceOf(st, neighbor) = surf
     THEN saveWindows(arrange(swapped, surf))
     ELSE IF ~config.moveBetweenSurfaces THEN st
     ELSE IF /\ neighbor # NoWin
             /\ closestSurface # NoSurface
             /\ sameSurface(closestSurface, surfaceOf(st, neighbor))
     THEN saveWindows(arrange(arrange(slotted, surf), closestSurface))
     ELSE IF closestSurface # NoSurface
     THEN moveWindowToSurface(st, window, closestSurface)
     ELSE st

\* a floating window is moved on the host only; a tile is swapped
swapDirOrMoveFloat(st, dir, rank) ==
  IF st.currentWindow = NoWin THEN st
  ELSE IF tiled(st, st.currentWindow) THEN swapDirection(st, dir, rank)
  ELSE st

\* wrapIndex: the index brought into 0..length-1
wrapIndex(index, length) ==
  IF index < 0 THEN index + length
  ELSE IF index >= length THEN index - length
  ELSE index

\* swapOrder: the window goes in front of the next or the previous visible
\* window of its surface
swapOrder(st, window, step) ==
  LET srf == surfaceOf(st, window)
      visibles == visibleWindowsOn(st, srf)
      vsrc == indexOf(visibles, window)
      vdst == wrapIndex(vsrc + step, Len(visibles))
      dstWin == at(visibles, vdst)
  IN IF Len(visibles) < 2 THEN st
     ELSE saveWindows(arrange([st EXCEPT !.list = move(st.list, window, dstWin, FALSE)],
                              srf))

\* MoveActiveWindowToNextPosition, ...ToPreviousPosition
moveActiveWindowToPosition(st, step) ==
  IF st.currentWindow = NoWin THEN st ELSE swapOrder(st, st.currentWindow, step)

\* the shortcuts that act on the active window
Shortcut == {"cycle", "master", "order", "swap", "surface"}

shortcut(st, k, dir, rank) ==
  CASE k = "cycle" -> cycleWindowBetweenStacks(st)
    [] k = "master" -> moveToMasterStack(st, st.currentWindow)
    [] k = "order" -> moveActiveWindowToPosition(st, IF dir \in {"down", "right"} THEN 1 ELSE -1)
    [] k = "swap" -> swapDirOrMoveFloat(st, dir, rank)
    [] k = "surface" -> moveToSurfaceDir(st, dir)

\* the first surface that displays the group
surfaceShowing(g) ==
  IF g # NoGroup /\ \E s \in Screen : g \in surfaceGroups[s]
  THEN Min({s \in Screen : g \in surfaceGroups[s]})
  ELSE NoSurface

\* an addWindowToGroup that arranges the destination before the old surface
addWindowToGroupNewFirst(st, g) ==
  LET window == st.currentWindow
      oldSurf == surfaceShowing(st.group[window])
      newSurf == surfaceShowing(g)
      s1 == [st EXCEPT !.group[window] = g]
  IN IF window = NoWin THEN st
     ELSE IF newSurf # NoSurface
     THEN arrange(arrange([s1 EXCEPT !.screen[window] = newSurf], newSurf), oldSurf)
     ELSE arrange(s1, oldSurf)

addWindowToGroup(st, g) ==
  LET window == st.currentWindow
      oldSurf == surfaceShowing(st.group[window])
      newSurf == surfaceShowing(g)
      s1 == [st EXCEPT !.group[window] = g]
      s2 == arrange(s1, oldSurf)
  IN IF window = NoWin THEN st
     ELSE IF newSurf # NoSurface
     THEN arrange([s2 EXCEPT !.screen[window] = newSurf], newSurf)
     ELSE s2

\* client.screenChanged: the driver puts the window on the surface of its new
\* screen, the controller arranges the old surface and then the window's
onWindowScreenChanged(st, window, newScreen) ==
  LET oldSurface == surfaceOf(st, window)
      s1 == [st EXCEPT !.screen[window] = newScreen]
      s2 == arrange(s1, oldSurface)
  IN arrange(s2, surfaceOf(s2, window))

(***************************************************************************)
(* The handlers as actions.                                                 *)
(***************************************************************************)
\* the engine's fields after a handler that returns r
Writes(r) ==
  /\ list' = r.list
  /\ state' = r.state
  /\ minimized' = r.minimized
  /\ group' = r.group
  /\ wscreen' = r.screen
  /\ geometry' = r.geometry
  /\ numMasterTiles' = r.nmt
  /\ currentWindow' = r.currentWindow
  /\ savedList' = r.saved
  /\ shaded' = r.shaded
  /\ statePreviouslyAskedToChangeTo' = r.asked
  /\ floatGeometry' = r.floatGeometry
  /\ lastMoveTarget' = r.lastMoveTarget
  /\ wdesktop' = r.desktop
  /\ currentDesktop' = r.currentDesktop
  /\ desktops' = r.desktops
  /\ evlog' = r.log
  /\ UNCHANGED <<config, layoutOf, surfaceGroups, hidden>>
  /\ UNCHANGED <<live, dupPushed, lastCall, driverVars>>

\* a handler of the controller: the driver's window map is not touched
Becomes(r) ==
  /\ Writes(r)
  /\ UNCHANGED <<windowMap, bound, clientList, gone, ignoredClients,
                 removedRan, started>>

Did(op) == [NoHist EXCEPT !.op = op, !.calls = hist.calls + 1]

\* a run is MaxCalls handler calls long
Within == hist.calls < MaxCalls

\* where the host puts a new client of screen s
placement(s) ==
  Rect(s * ScreenWidth + ScreenWidth \div 4, ScreenHeight \div 4,
       ScreenWidth \div 2, ScreenHeight \div 2)

\* the client w as the host hands it over: a new wrapper, on screen s, of the
\* group that currentSurface.group gives (DriverSurfaceImpl has no such field)
arrives(st, w, s, m) ==
  [st EXCEPT !.screen[w] = s, !.group[w] = NoGroup, !.minimized[w] = m,
             !.desktop[w] = st.currentDesktop,
             !.geometry[w] = placement(s)]

\* a client that the policy ignores
arrivesIgnored(st, w, s, m) == [arrives(st, w, s, m) EXCEPT !.ignored[w] = TRUE]

\* the wrapper of a removed client is dropped; the host has no active client
\* until it activates another
forget(st, w) ==
  [st EXCEPT !.state[w] = "Unmanaged", !.minimized[w] = FALSE,
             !.group[w] = NoGroup, !.screen[w] = 0, !.geometry[w] = NoRect,
             !.desktop[w] = 1,
             !.shaded[w] = FALSE, !.asked[w] = "Unmanaged",
             !.floatGeometry[w] = NoRect,
             !.lastMoveTarget = IF st.lastMoveTarget = w THEN NoWin
                                ELSE st.lastMoveTarget,
             !.currentWindow = IF st.currentWindow = w THEN NoWin
                               ELSE st.currentWindow]

\* clientAdded -> ControllerImpl.onWindowAdded; the clients are numbered as
\* they come
OnWindowAdded(w, s, m) ==
  /\ Within
  /\ ~contains(list, w)
  /\ \A v \in Win : v < w => contains(list, v)
  /\ numMasterTiles[s] < MaxMaster
  /\ LET r == manage(arrives(Cur, w, s, m), w)
     IN Becomes(arrange(r, surfaceOf(r, w)))
  /\ hist' = [Did(IF hist.op \in {"none", "adds"} THEN "adds" ELSE "add")
              EXCEPT !.w = w]

\* clientAdded for a client that the policy ignores: manage refuses it, its
\* surface is arranged all the same, and the driver drops the wrapper, whose
\* state is still Unmanaged
OnIgnoredWindowAdded(w, s, m) ==
  /\ Within
  /\ ~contains(list, w)
  /\ \A v \in Win : v < w => contains(list, v)
  /\ LET r == manage(arrivesIgnored(Cur, w, s, m), w)
     IN Becomes(forget(arrange(r, surfaceOf(r, w)), w))
  /\ hist' = Did("ignored")

\* clientRemoved -> ControllerImpl.onWindowRemoved
OnWindowRemoved(w) ==
  /\ Within
  /\ contains(list, w)
  /\ Becomes(forget(unmanage(Cur, w), w))
  /\ hist' = [Did("remove") EXCEPT !.w = w, !.nmt = numMasterTiles[wscreen[w]]]

\* client.activeChanged -> ControllerImpl.onWindowFocused
OnWindowFocused(w) ==
  /\ Within
  /\ contains(list, w)
  /\ ~minimized[w]
  /\ currentWindow # w
  /\ Becomes([Cur EXCEPT !.currentWindow = w])
  /\ hist' = Did("other")

(***************************************************************************)
(* Controller: a drag ends, a window is shaded or unshaded.                 *)
(***************************************************************************)
\* the rectangle r moved by d
movedBy(r, d) == Rect(r.x + d[1], r.y + d[2], r.width, r.height)

\* where a drag may leave a window, from its place: 30 pixels away, and a
\* little more than 30 pixels away
Drops == {<<18, 24>>, <<31, 0>>}

\* the square of the distance between the origins of two rectangles
moved2(a, b) == (a.x - b.x) * (a.x - b.x) + (a.y - b.y) * (a.y - b.y)

\* window.commit() outside an arrangement: the window is put where its
\* geometry says
commit(st, window) ==
  [st EXCEPT !.log = Append(st.log, Event("recommit", surfaceOf(st, window), window, 0))]

\* an onWindowMoveOver that untiles from 30 pixels on
onWindowMoveOverFrom30(st, window, actualGeometry) ==
  IF /\ config.untileByDragging
     /\ st.state[window] = "Tiled"
     /\ moved2(actualGeometry, st.geometry[window]) >= UntileDistance * UntileDistance
  THEN arrange(noteState([st EXCEPT !.floatGeometry[window] = actualGeometry,
                                    !.state[window] = "Floating"],
                         window),
               surfaceOf(st, window))
  ELSE saveWindows(commit(st, window))

\* onWindowMoveOver: a tile dropped far from its place floats; any other
\* window is put where its geometry says
onWindowMoveOver(st, window, actualGeometry) ==
  IF /\ config.untileByDragging
     /\ st.state[window] = "Tiled"
     /\ moved2(actualGeometry, st.geometry[window]) > UntileDistance * UntileDistance
  THEN arrange(noteState([st EXCEPT !.floatGeometry[window] = actualGeometry,
                                    !.state[window] = "Floating"],
                         window),
               surfaceOf(st, window))
  ELSE saveWindows(commit(st, window))

\* onWindowShadeChanged: a shaded window floats, an unshaded one gets the state
\* that is remembered for it; the state a window had when it was shaded is
\* what is remembered, until the window is unshaded
onWindowShadeChanged(st, win) ==
  arrange(noteState([st EXCEPT !.state[win] = IF st.shaded[win] THEN "Floating"
                                              ELSE st.asked[win],
                               !.asked[win] = IF st.shaded[win] THEN st.state[win]
                                              ELSE "Unmanaged"],
                    win),
          surfaceOf(st, win))

\* the host shades or unshades the client
shadeFlipped(st, w) == [st EXCEPT !.shaded[w] = ~st.shaded[w]]

\* shortcut: focus the window up, down, left or right; the call is a step
\* when it changes the focus
FocusDir(dir, rank, s) ==
  /\ Within
  /\ focusDir(Cur, dir, rank, s).currentWindow # currentWindow
  /\ Becomes(focusDir(Cur, dir, rank, s))
  /\ hist' = [Did("focusDir") EXCEPT !.w = currentWindow]

\* moveResizedChanged at the end of a move -> ControllerImpl.onWindowMoveOver
OnWindowMoveOver(w, d) ==
  /\ Within
  /\ contains(list, w)
  /\ ~minimized[w]
  /\ Becomes(onWindowMoveOver(Cur, w, movedBy(geometry[w], d)))
  /\ hist' = Did("moveOver")

(***************************************************************************)
(* Controller: a window is being dragged.                                   *)
(***************************************************************************)
\* Rect.includesPoint: the edges belong to the rectangle
includesPoint(r, p) ==
  r.x <= p[1] /\ p[1] <= maxX(r) /\ r.y <= p[2] /\ p[2] <= maxY(r)

\* onWindowMove: the visible tiles of the current surface, other than the
\* dragged window, that the centre of the dragged window is over.  A tile is
\* where the last commit put it; the dragged window is where the user has it
\* (DriverWindowImpl.commit sets no frame geometry while client.move)
targetsAt(st, window, windowCenter, currentSurface) ==
  SelectSeq(visibleTiledWindowsOn(st, currentSurface),
            LAMBDA tile : includesPoint(st.geometry[tile], windowCenter)
                          /\ tile # window)

\* an onWindowMove that leaves numMasterTiles alone
onWindowMoveNoCount(st, window, windowCenter, currentSurface) ==
  LET targets == targetsAt(st, window, windowCenter, currentSurface)
      bottomTarget == targets[Len(targets)]
      n == st.nmt[currentSurface]
      has == stackable(currentSurface)
      to(l) == [st EXCEPT !.list = l, !.lastMoveTarget = targets[1]]
      done(r) == arrange(r, surfaceOf(r, window))
  IN IF st.state[window] # "Tiled" THEN st
     ELSE IF Len(targets) = 0 THEN [st EXCEPT !.lastMoveTarget = NoWin]
     ELSE IF targets[1] = st.lastMoveTarget THEN st
     ELSE IF has /\ isInMasterStack(st, bottomTarget, n)
     THEN done(to(move(st.list, window, bottomTarget, TRUE)))
     ELSE IF config.mouseDragInsert
     THEN done(to(move(st.list, window, targets[1], FALSE)))
     ELSE done(to(swap(st.list, window, targets[1])))

\* ControllerImpl.onWindowMove: the layout is that of the current surface,
\* the arrangement that of the window's surface
onWindowMove(st, window, windowCenter, currentSurface) ==
  LET targets == targetsAt(st, window, windowCenter, currentSurface)
      bottomTarget == targets[Len(targets)]
      n == st.nmt[currentSurface]
      has == stackable(currentSurface)
      to(l) == [st EXCEPT !.list = l, !.lastMoveTarget = targets[1]]
      done(r) == arrange(r, surfaceOf(r, window))
  IN IF st.state[window] # "Tiled" THEN st
     ELSE IF Len(targets) = 0 THEN [st EXCEPT !.lastMoveTarget = NoWin]
     ELSE IF targets[1] = st.lastMoveTarget THEN st
     ELSE IF /\ has
             /\ ~isInMasterStack(st, window, n)
             /\ isInMasterStack(st, targets[1], n)
     THEN done([to(move(st.list, window, bottomTarget, TRUE))
                  EXCEPT !.nmt[currentSurface] = n + 1])
     ELSE IF /\ has
             /\ isInMasterStack(st, window, n)
             /\ ~isInMasterStack(st, targets[1], n)
     THEN done([st EXCEPT !.list = move(st.list, window, targets[1], FALSE),
                          !.nmt[currentSurface] = n - 1])
     ELSE IF has /\ isInMasterStack(st, bottomTarget, n)
     THEN done(to(move(st.list, window, bottomTarget, TRUE)))
     ELSE IF config.mouseDragInsert
     THEN done(to(move(st.list, window, targets[1], FALSE)))
     ELSE done(to(swap(st.list, window, targets[1])))

\* where the centre of a dragged window may be: inside the halves and the
\* thirds of the first screen, on no edge of a tile, and on the second screen
DragPoints ==
  {<<ScreenWidth \div 4, ScreenHeight \div 6>>,
   <<ScreenWidth \div 4, (5 * ScreenHeight) \div 12>>,
   <<ScreenWidth \div 4, (5 * ScreenHeight) \div 6>>,
   <<(3 * ScreenWidth) \div 4, ScreenHeight \div 6>>,
   <<(3 * ScreenWidth) \div 4, (5 * ScreenHeight) \div 12>>,
   <<(3 * ScreenWidth) \div 4, (5 * ScreenHeight) \div 6>>,
   <<ScreenWidth + ScreenWidth \div 4, ScreenHeight \div 6>>}

\* frameGeometryChanged while client.move -> ControllerImpl.onWindowMove; the
\* host says where the window is and which screen is the active one
OnWindowMove(w, p, s) ==
  /\ Within
  /\ contains(list, w)
  /\ ~minimized[w]
  /\ numMasterTiles[s] < MaxMaster
  /\ Becomes(onWindowMove(Cur, w, p, s))
  /\ hist' = [Did("move") EXCEPT !.w = w, !.nmt = numMasterTiles[s]]

\* shadeChanged -> ControllerImpl.onWindowShadeChanged
OnWindowShadeChanged(w) ==
  /\ Within
  /\ contains(list, w)
  /\ ~minimized[w]
  /\ Becomes(onWindowShadeChanged(shadeFlipped(Cur, w), w))
  /\ hist' = [Did(IF shaded[w] THEN "unshade" ELSE "shade") EXCEPT !.w = w]

\* clientMinimized -> ControllerImpl.onWindowMinimized
OnWindowMinimized(w) ==
  /\ Within
  /\ contains(list, w)
  /\ ~minimized[w]
  /\ LET r == onWindowMinimized(Cur, w)
     IN Becomes([r EXCEPT !.currentWindow =
                   IF r.currentWindow = w THEN NoWin ELSE r.currentWindow])
  /\ hist' = Did("other")

\* clientUnminimized -> ControllerImpl.onWindowUnminimized
OnWindowUnminimized(w) ==
  /\ Within
  /\ contains(list, w)
  /\ minimized[w]
  /\ numMasterTiles[wscreen[w]] < MaxMaster
  /\ Becomes(onWindowUnminimized(Cur, w))
  /\ hist' = Did("other")

\* shortcut: ToggleActiveWindowFloating
ToggleFloat ==
  /\ Within
  /\ currentWindow # NoWin
  /\ Becomes(toggleFloat(Cur, currentWindow))
  /\ hist' = [Did("toggleFloat") EXCEPT !.w = currentWindow]

\* shortcut: cycle the active window between the master and the stack
CycleWindowBetweenStacks ==
  /\ Within
  /\ currentWindow # NoWin
  /\ numMasterTiles[wscreen[currentWindow]] < MaxMaster
  /\ Becomes(cycleWindowBetweenStacks(Cur))
  /\ hist' = IF hist.op = "cycle" /\ hist.w = currentWindow /\ ~hist.paired
             THEN [hist EXCEPT !.paired = TRUE, !.calls = hist.calls + 1]
             ELSE [op |-> "cycle", w |-> currentWindow,
                   nmt |-> numMasterTiles[wscreen[currentWindow]],
                   paired |-> FALSE, calls |-> hist.calls + 1]

\* shortcut: move the active window up, down, left or right
SwapDirOrMoveFloat(dir, rank) ==
  /\ Within
  /\ currentWindow # NoWin
  /\ Becomes(swapDirOrMoveFloat(noteWas(Cur, currentWindow), dir, rank))
  /\ hist' = Did("other")

\* shortcut: move the active window to the next or the previous position
SwapOrder(step) ==
  /\ Within
  /\ currentWindow # NoWin
  /\ Becomes(moveActiveWindowToPosition(Cur, step))
  /\ hist' = Did("other")

\* a shortcut is pressed while the host has no active client
ShortcutWithoutWindow(k, dir) ==
  /\ Within
  /\ currentWindow = NoWin
  /\ Becomes(shortcut(Cur, k, dir, [w \in Win |-> w]))
  /\ hist' = Did("noWindow")

\* shortcut: move the active window to the screen in a direction
MoveToSurfaceDir(dir) ==
  /\ Within
  /\ currentWindow # NoWin
  /\ Becomes(moveToSurfaceDir(noteWas(Cur, currentWindow), dir))
  /\ hist' = Did("other")

\* EngineImpl.addWindowToGroup for the active window
AddWindowToGroup(g) ==
  /\ Within
  /\ currentWindow # NoWin
  /\ Becomes(addWindowToGroup(noteWas(Cur, currentWindow), g))
  /\ hist' = [Did("group") EXCEPT !.w = currentWindow]

\* client.screenChanged -> ControllerImpl.onWindowScreenChanged
OnWindowScreenChanged(w, s) ==
  /\ Within
  /\ contains(list, w)
  /\ s # wscreen[w]
  /\ Becomes(onWindowScreenChanged(noteWas(Cur, w), w, s))
  /\ hist' = Did("other")

\* the settings a run starts with: the defaults with one setting changed, and
\* the sole tile maximized under a width limit
Configs ==
  {[DefaultConfig EXCEPT !.newWindowSpawnLocation = l] : l \in SpawnLocation}
    \cup {[DefaultConfig EXCEPT !.maximizeSoleTile = TRUE],
          [DefaultConfig EXCEPT !.limitTileWidthRatio = <<1, 2>>,
                                !.untileByDragging = FALSE],
          [DefaultConfig EXCEPT !.maximizeSoleTile = TRUE,
                                !.limitTileWidthRatio = <<1, 2>>]}

\* the layout of each surface: the first is tile or monocle, the others tile
Layouts ==
  {l \in [Screen -> LayoutKind] : \A s \in Screen \ {0} : l[s] = "tile"}

\* screen 0 displays group a, screen 1 group b
displayed(s) == IF s = 0 THEN {"a"} ELSE IF s = 1 THEN {"b"} ELSE {}

Init ==
  /\ StoreFresh
  /\ DriverFresh
  /\ state = [w \in Win |-> "Unmanaged"]
  /\ minimized = [w \in Win |-> FALSE]
  /\ group = [w \in Win |-> NoGroup]
  /\ wscreen = [w \in Win |-> 0]
  /\ geometry = [w \in Win |-> NoRect]
  /\ numMasterTiles = [s \in Screen |-> 1]
  /\ currentWindow = NoWin
  /\ savedList = <<>>
  /\ shaded = [w \in Win |-> FALSE]
  /\ statePreviouslyAskedToChangeTo = [w \in Win |-> "Unmanaged"]
  /\ floatGeometry = [w \in Win |-> NoRect]
  /\ hidden = [w \in Win |-> FALSE]
  /\ lastMoveTarget = NoWin
  /\ wdesktop = [w \in Win |-> 1]
  /\ currentDesktop = 1
  /\ desktops = 2
  /\ windowMap = {}
  /\ bound = {}
  /\ clientList = {}
  /\ gone = {}
  /\ ignoredClients = {}
  /\ removedRan = {}
  /\ started = TRUE
  /\ config \in Configs
  /\ layoutOf \in Layouts
  /\ surfaceGroups = [s \in Screen |-> displayed(s)]
  /\ evlog = <<>>
  /\ hist = NoHist

Next ==
  \/ \E w \in Win, s \in Screen, m \in BOOLEAN : OnWindowAdded(w, s, m)
  \/ \E w \in Win, s \in Screen, m \in BOOLEAN : OnIgnoredWindowAdded(w, s, m)
  \/ \E w \in Win : OnWindowRemoved(w)
  \/ \E w \in Win : OnWindowFocused(w)
  \/ \E dir \in Dir, rank \in Recency, s \in Screen : FocusDir(dir, rank, s)
  \/ \E w \in Win, d \in Drops : OnWindowMoveOver(w, d)
  \/ \E w \in Win : OnWindowShadeChanged(w)
  \/ \E step \in {-1, 1} : SwapOrder(step)
  \/ \E k \in Shortcut, dir \in Dir : ShortcutWithoutWindow(k, dir)
  \/ \E w \in Win : OnWindowMinimized(w)
  \/ \E w \in Win : OnWindowUnminimized(w)
  \/ ToggleFloat
  \/ CycleWindowBetweenStacks
  \/ \E dir \in Dir, rank \in Recency : SwapDirOrMoveFloat(dir, rank)
  \/ \E dir \in Dir : MoveToSurfaceDir(dir)
  \/ \E g \in Group : AddWindowToGroup(g)
  \/ \E w \in Win, s \in Screen : OnWindowScreenChanged(w, s)

Spec == Init /\ [][Next]_vars

(***************************************************************************)
(* The engine with windows that are dragged: the windows come, go, are      *)
(* focused, minimized, cycled between the stacks and dragged.               *)
(***************************************************************************)
\* the settings of a run with drags: a tile dragged onto another is put
\* before it, or the two are swapped
DragConfigs == {[DefaultConfig EXCEPT !.mouseDragInsert = b] : b \in BOOLEAN}

\* the engine after the windows 1..k have come to the first surface as tiles
\* and n of them have been made masters: the tiles are arranged
Tiling(k, n) ==
  arrange([list |-> [i \in 1..k |-> i],
           state |-> [w \in Win |-> IF w <= k THEN "Tiled" ELSE "Unmanaged"],
           minimized |-> [w \in Win |-> FALSE],
           group |-> [w \in Win |-> NoGroup],
           screen |-> [w \in Win |-> 0],
           geometry |-> [w \in Win |-> NoRect],
           nmt |-> [s \in Screen |-> IF s = 0 THEN n ELSE 1],
           currentWindow |-> NoWin,
           saved |-> [i \in 1..k |-> i],
           log |-> <<>>,
           shaded |-> [w \in Win |-> FALSE],
           asked |-> [w \in Win |-> "Unmanaged"],
           floatGeometry |-> [w \in Win |-> NoRect],
           lastMoveTarget |-> NoWin,
           desktop |-> [w \in Win |-> 1],
           currentDesktop |-> 1,
           desktops |-> 2,
           ignored |-> [w \in Win |-> FALSE]], 0)

\* a run with drags starts with the engine as it is constructed, or with up
\* to NumWin tiles on the first surface, one or two of them masters
DragInit ==
  /\ DriverFresh
  /\ live = {}
  /\ dupPushed = FALSE
  /\ lastCall = NoCall
  /\ config \in DragConfigs
  /\ layoutOf \in Layouts
  /\ surfaceGroups = [s \in Screen |-> displayed(s)]
  /\ \E k \in 0..NumWin, n \in 1..2 :
       /\ (k = 0 \/ ~stackable(0)) => n = 1
       /\ LET r == Tiling(k, n)
          IN /\ list = r.list
             /\ state = r.state
             /\ minimized = r.minimized
             /\ group = r.group
             /\ wscreen = r.screen
             /\ geometry = r.geometry
             /\ numMasterTiles = r.nmt
             /\ currentWindow = r.currentWindow
             /\ savedList = r.saved
             /\ shaded = r.shaded
             /\ statePreviouslyAskedToChangeTo = r.asked
             /\ floatGeometry = r.floatGeometry
             /\ lastMoveTarget = r.lastMoveTarget
  /\ hidden = [w \in Win |-> FALSE]
  /\ wdesktop = [w \in Win |-> 1]
  /\ currentDesktop = 1
  /\ desktops = 2
  /\ windowMap = {}
  /\ bound = {}
  /\ clientList = {}
  /\ gone = {}
  /\ ignoredClients = {}
  /\ removedRan = {}
  /\ started = TRUE
  /\ evlog = <<>>
  /\ hist = NoHist

DragNext ==
  \/ \E w \in Win, s \in Screen, m \in BOOLEAN : OnWindowAdded(w, s, m)
  \/ \E w \in Win : OnWindowRemoved(w)
  \/ \E w \in Win : OnWindowFocused(w)
  \/ \E w \in Win : OnWindowMinimized(w)
  \/ \E w \in Win : OnWindowUnminimized(w)
  \/ CycleWindowBetweenStacks
  \/ \E w \in Win, p \in DragPoints, s \in Screen : OnWindowMove(w, p, s)

SpecDrag == DragInit /\ [][DragNext]_vars

(***************************************************************************)
(* Properties of the engine.                                                *)
(***************************************************************************)
\* the windows of the store that are in the master region of surface s
masters(s) ==
  {w \in Elems(list) : isInMasterStack(Cur, w, numMasterTiles[s])}

\* C5: on a surface with a stack-capable layout, numMasterTiles = 1 at the
\* start and the spawn-at-end policy, when three tileable windows have been
\* added one after another (each managed, then arranged) and nothing else has
\* happened, exactly one of the three is in the master region and the other
\* two are in the stack region.
C5_OneMasterTwoStack ==
  \A s \in Screen :
    (/\ hist.op = "adds"
     /\ config.newWindowSpawnLocation = "end"
     /\ stackable(s)
     /\ Len(list) = 3
     /\ \A w \in Elems(list) : wscreen[w] = s /\ tileable(Cur, w))
    => Cardinality(masters(s)) = 1

\* three tileable windows were added to one surface and nothing else was done
C5_Witness ==
  \E s \in Screen :
    /\ hist.op = "adds"
    /\ config.newWindowSpawnLocation = "end"
    /\ stackable(s)
    /\ Len(list) = 3
    /\ \A w \in Elems(list) : wscreen[w] = s /\ tileable(Cur, w)

\* C6: for a window w that is not in the store, whatever the store holds and
\* whatever the spawn policy is, manage(w) followed at once by unmanage(w)
\* leaves the store's sequence of windows and every layout's numMasterTiles as
\* they were before manage(w).
C6_ManageUnmanageRestores ==
  \A w \in Win, s \in Screen :
    ~contains(list, w) =>
      LET r == unmanage(manage(arrives(Cur, w, s, FALSE), w), w)
      IN r.list = list /\ r.nmt = numMasterTiles

\* C7: when cycleWindowBetweenStacks has been called twice in a row on the
\* same current window of a surface with a stack-capable layout, that
\* layout's numMasterTiles is what it was before the first call.
C7_CycleTwiceRestores ==
  (/\ hist.op = "cycle"
   /\ hist.paired
   /\ stackable(wscreen[hist.w]))
  => numMasterTiles[wscreen[hist.w]] = hist.nmt

\* the arrangement steps of the last handler that were run for surface s
stepsOf(s) ==
  SelectSeq(evlog, LAMBDA e : e.s = s /\ e.k \in {"classify", "layout", "clamp", "commit"})

stepRank(k) ==
  CASE k = "classify" -> 1
    [] k = "layout" -> 2
    [] k = "clamp" -> 3
    [] k = "commit" -> 4
    [] OTHER -> 0

\* C8: within one arrangement of a surface, the Undecided visible windows are
\* classified first, then the layout is applied (or the sole tile maximized)
\* with no visible window left Undecided, then the widths are clamped, and
\* only then is any window committed.
C8_ArrangementOrder ==
  \A s \in Screen :
    \A j \in 1..Len(stepsOf(s)) :
      LET e == stepsOf(s)[j] IN
      /\ e.k \in {"layout", "clamp"} => e.n = 0
      /\ e.k # "classify" =>
           /\ j > 1
           /\ \/ stepRank(stepsOf(s)[j - 1].k) < stepRank(e.k)
              \/ stepsOf(s)[j - 1].k = "commit" /\ e.k = "commit"

\* an arrangement met an Undecided window and ran all four steps
C8_Witness ==
  \E s \in Screen :
    \E a, b, c, d \in 1..Len(stepsOf(s)) :
      /\ a < b /\ b < c /\ c < d
      /\ stepsOf(s)[a].k = "classify" /\ stepsOf(s)[a].n > 0
      /\ stepsOf(s)[b].k = "layout"
      /\ stepsOf(s)[c].k = "clamp"
      /\ stepsOf(s)[d].k = "commit"

\* the last handler took window w off surface v and onto surface d
took(w, v, d) ==
  /\ \E i \in 1..Len(evlog) :
       evlog[i].k = "was" /\ evlog[i].w = w /\ evlog[i].s = v
  /\ \A i \in 1..Len(evlog) :
       evlog[i].k = "was" /\ evlog[i].w = w => evlog[i].s # d
  /\ ~on(Cur, w, v)
  /\ on(Cur, w, d)

\* C9: when a handler has taken a window from one surface to another and has
\* run an arrangement step for the destination, it has arranged the vacated
\* surface, and every step of that came before the destination's first.
C9_VacatedArrangedFirst ==
  \A w \in Win, v \in Screen, d \in Screen :
    (took(w, v, d) /\ stepsOf(d) # <<>>) =>
      /\ \E i \in 1..Len(evlog) : evlog[i].k = "classify" /\ evlog[i].s = v
      /\ \A i, j \in 1..Len(evlog) :
           (/\ evlog[i].k # "was" /\ evlog[i].s = v
            /\ evlog[j].k # "was" /\ evlog[j].s = d) => i < j

\* a window was taken to another surface, and both surfaces were arranged
C9_Witness ==
  \E w \in Win, v \in Screen, d \in Screen :
    took(w, v, d) /\ stepsOf(d) # <<>> /\ stepsOf(v) # <<>>

\* the windows of w's group that are tileable and come before w in the store
tilesBefore(w) ==
  {v \in Elems(list) : /\ group[v] = group[w]
                       /\ tileable(Cur, v)
                       /\ indexOf(list, v) < indexOf(list, w)}

\* C10: isInMasterStack(w, n) is true exactly when w is a tileable or
\* minimized window of the store and fewer than n windows come before it in
\* the store-ordered list of its group's tileable or minimized windows without
\* the minimized ones other than w; it is false for a window not in that list.
C10_MasterStackIndex ==
  \A w \in Win, n \in 0..MaxMaster :
    isInMasterStack(Cur, w, n) <=>
      /\ contains(list, w)
      /\ tileable(Cur, w) \/ minimized[w]
      /\ Cardinality(tilesBefore(w)) < n

\* a minimized window in the master region behind a tile, and a tile outside
\* the master region
C10_Witness ==
  /\ \E w \in Elems(list) :
       /\ minimized[w]
       /\ tilesBefore(w) # {}
       /\ isInMasterStack(Cur, w, numMasterTiles[wscreen[w]])
  /\ \E w \in Elems(list), n \in 1..MaxMaster :
       tileable(Cur, w) /\ ~isInMasterStack(Cur, w, n)

\* C11: manage(w) of a window that the policy ignores changes nothing: the
\* store, w's state (and every other window's), the saved list and every
\* layout's numMasterTiles are as they were before the call.
C11_IgnoredManageIsNoOp ==
  \A w \in Win, s \in Screen, m \in BOOLEAN :
    ~contains(list, w) =>
      LET a == arrivesIgnored(Cur, w, s, m)
          r == manage(a, w)
      IN /\ r.list = a.list
         /\ r.state = a.state
         /\ r.saved = a.saved
         /\ r.nmt = a.nmt

\* an ignored client came while the store held windows, and left no trace
C11_Witness ==
  /\ hist.op = "ignored"
  /\ list # <<>>
  /\ \E w \in Win : ~contains(list, w) /\ state[w] = "Unmanaged"

\* C12: manage(w) of a window that is not ignored puts w, before any move to
\* the master boundary, where the spawn setting says: "master" at index 0;
\* "beforeFocused" and "afterFocused", with a focused window f in the store,
\* just before and just after f; in every other case at the end.  The windows
\* already stored keep their order.
C12_SpawnPosition ==
  \A w \in Win, s \in Screen, m \in BOOLEAN :
    ~contains(list, w) =>
      LET r == manageInserted(arrives(Cur, w, s, m), w)
          f == currentWindow
          spawn == config.newWindowSpawnLocation
          focused == f # NoWin /\ contains(list, f)
      IN /\ contains(r.list, w)
         /\ remove(r.list, w) = list
         /\ indexOf(r.list, w) =
              IF spawn = "master" THEN 0
              ELSE IF spawn = "beforeFocused" /\ focused
              THEN indexOf(r.list, f) - 1
              ELSE IF spawn = "afterFocused" /\ focused
              THEN indexOf(r.list, f) + 1
              ELSE Len(list)

\* a window was added next to a focused window that was not the last of the
\* store, and another can still come
C12_Witness ==
  /\ hist.op = "add"
  /\ config.newWindowSpawnLocation \in {"beforeFocused", "afterFocused"}
  /\ currentWindow # NoWin
  /\ Len(list) = 3
  /\ hist.w # list[3]

\* C13: when manage(w) returns for a window that is not ignored, w is
\* Undecided; Tiled or Floating is decided by an arrangement, not by manage.
C13_UndecidedAfterManage ==
  \A w \in Win, s \in Screen, m \in BOOLEAN :
    ~contains(list, w) =>
      manage(arrives(Cur, w, s, m), w).state[w] = "Undecided"

\* C14: when manage(w) has put w inside the master stack of a stack-capable
\* layout, numMasterTiles grows by one and w ends at the boundary: w is in the
\* master stack and is its last window, behind every window that was in the
\* master stack before, and no window of the stack region has entered the
\* master stack.  When w has landed outside, numMasterTiles is unchanged.
C14_LandsAtBoundary ==
  \A w \in Win, s \in Screen, m \in BOOLEAN :
    (~contains(list, w) /\ stackable(s)) =>
      LET a == arrives(Cur, w, s, m)
          ins == manageInserted(a, w)
          r == manage(a, w)
          n == numMasterTiles[s]
          behind(v) == indexOf(r.list, v) < indexOf(r.list, w)
      IN IF isInMasterStack(ins, w, n)
         THEN /\ r.nmt = [numMasterTiles EXCEPT ![s] = n + 1]
              /\ isInMasterStack(r, w, n + 1)
              /\ \A v \in Elems(list) :
                   /\ isInMasterStack(r, v, n + 1) => behind(v)
                   /\ isInMasterStack(Cur, v, n) => behind(v)
                   /\ ~isInMasterStack(Cur, v, n) => ~isInMasterStack(r, v, n + 1)
         ELSE r.nmt = numMasterTiles

\* C15: unmanage(w) lowers numMasterTiles of the layout of w's surface by one
\* if w was in the master stack and leaves it as it is if not (every other
\* layout's too); w is gone from the store and the other windows keep their
\* order; w's surface is arranged once and no other surface is.
C15_UnmanageContract ==
  \A w \in Elems(list) :
    LET surf == wscreen[w]
        n == numMasterTiles[surf]
        r == unmanage(Cur, w)
    IN /\ r.nmt = IF stackable(surf) /\ isInMasterStack(Cur, w, n)
                  THEN [numMasterTiles EXCEPT ![surf] = n - 1]
                  ELSE numMasterTiles
       /\ ~contains(r.list, w)
       /\ r.list = SelectSeq(list, LAMBDA v : v # w)
       /\ Len(SelectSeq(r.log, LAMBDA e : e.k = "classify")) = 1
       /\ \A i \in 1..Len(r.log) : r.log[i].s = surf

\* a window of the master stack was removed: its surface was arranged, the
\* layout has one master tile less, and windows are left
C15_Witness ==
  /\ hist.op = "remove"
  /\ list # <<>>
  /\ evlog # <<>>
  /\ stackable(evlog[1].s)
  /\ numMasterTiles[evlog[1].s] = hist.nmt - 1

\* C16: cycleWindowBetweenStacks on a tiled current window of a surface with
\* a stack-capable layout flips the window's membership: from outside the
\* master stack it ends inside, with numMasterTiles one higher; from inside it
\* ends outside, with numMasterTiles one lower; every other window is in the
\* master stack after the call exactly if it was before.
C16_CycleFlipsMembership ==
  (/\ currentWindow # NoWin
   /\ tiled(Cur, currentWindow)
   /\ stackable(wscreen[currentWindow])) =>
    LET c == currentWindow
        surf == wscreen[c]
        n == numMasterTiles[surf]
        r == cycleWindowBetweenStacks(Cur)
    IN /\ IF isInMasterStack(Cur, c, n)
          THEN r.nmt[surf] = n - 1 /\ ~isInMasterStack(r, c, n - 1)
          ELSE r.nmt[surf] = n + 1 /\ isInMasterStack(r, c, n + 1)
       /\ \A v \in Elems(list) \ {c} :
            isInMasterStack(r, v, r.nmt[surf]) <=> isInMasterStack(Cur, v, n)

\* the sole visible tileable window of surface s, when there is exactly one
\* and no visible window of s is Undecided
soleTile(s) ==
  IF Len(visibleTileableWindowsOn(Cur, s)) = 1 /\ undecidedOn(Cur, s) = 0
  THEN visibleTileableWindowsOn(Cur, s)[1]
  ELSE NoWin

\* what the second step of an arrangement of s gives the sole tile: the
\* working area when the sole tile is maximized, else what apply computes
soleBase(s) ==
  IF config.maximizeSoleTile THEN workingArea(s)
  ELSE apply(Cur, s, <<soleTile(s)>>,
             getTilingArea(workingArea(s))).geometry[soleTile(s)]

\* the rectangle g, made as narrow as the width limit of s and centred
limited(s, g) ==
  LET maxWidth == (workingArea(s).height * config.limitTileWidthRatio[1])
                     \div config.limitTileWidthRatio[2]
  IN IF /\ config.limitTileWidthRatio[1] > 0
        /\ layoutOf[s] # "monocle"
        /\ g.width > maxWidth
     THEN Rect(g.x + (g.width - maxWidth) \div 2, g.y, maxWidth, g.height)
     ELSE g

\* how an arrangement of s treats the sole tile, whatever its geometry: with
\* sole-tile-maximize it is Maximized and apply is not called, without it
\* apply is called with that window and leaves it Tiled
soleTileTreated(s, r) ==
  /\ r.state[soleTile(s)] =
       IF config.maximizeSoleTile THEN "Maximized" ELSE "Tiled"
  /\ \E i \in 1..Len(r.log) :
       /\ r.log[i].k = "layout"
       /\ r.log[i].w = IF config.maximizeSoleTile THEN soleTile(s) ELSE NoWin

\* C17 as stated: arranging a surface with exactly one visible tileable window
\* gives that window, with sole-tile-maximize, the full working area of the
\* surface without a call of apply, and without it the geometry that the
\* layout's apply computes for the single window.
C17_Original ==
  \A s \in Screen :
    soleTile(s) # NoWin =>
      LET r == arrange(Cur, s)
      IN r.geometry[soleTile(s)] = soleBase(s) /\ soleTileTreated(s, r)

\* C17, amended: arranging a surface with exactly one visible tileable window
\* takes, with sole-tile-maximize, the full working area without a call of
\* apply, and without it what apply computes for the single window; the
\* window's geometry is that rectangle, narrowed to the width limit and
\* centred when a limit is set, the layout is not monocle and the rectangle
\* is wider than the limit.
C17_SoleTileGeometry ==
  \A s \in Screen :
    soleTile(s) # NoWin =>
      LET r == arrange(Cur, s)
      IN /\ r.geometry[soleTile(s)] = limited(s, soleBase(s))
         /\ soleTileTreated(s, r)

\* the last handler maximized a sole tile, and the width limit narrowed it
C17_Witness ==
  \E s \in Screen :
    /\ soleTile(s) # NoWin
    /\ \E i \in 1..Len(evlog) :
         evlog[i].k = "layout" /\ evlog[i].s = s /\ evlog[i].w = soleTile(s)
    /\ state[soleTile(s)] = "Maximized"
    /\ geometry[soleTile(s)].width < workingArea(s).width
    /\ geometry[soleTile(s)] = limited(s, workingArea(s))

\* window v begins strictly past the rectangle b in direction dir and shares
\* more than a point with it on the other axis
pastInDir(b, g, dir) ==
  CASE dir = "down" -> g.y > b.y /\ g.x < maxX(b) /\ b.x < maxX(g)
    [] dir = "up" -> g.y < b.y /\ g.x < maxX(b) /\ b.x < maxX(g)
    [] dir = "right" -> g.x > b.x /\ g.y < maxY(b) /\ b.y < maxY(g)
    [] dir = "left" -> g.x < b.x /\ g.y < maxY(b) /\ b.y < maxY(g)

\* how far the near edge of g is in direction dir (the greater the farther)
nearEdge(g, dir) ==
  CASE dir = "down" -> g.y
    [] dir = "up" -> 0 - maxY(g)
    [] dir = "right" -> g.x
    [] dir = "left" -> 0 - maxX(g)

\* the visible tiled windows of st that qualify as neighbours of its focused
\* window in direction dir
qualifying(st, dir) ==
  {v \in Elems(st.list) :
     /\ tiled(st, v)
     /\ \E s \in Screen : visibleOn(st, v, s)
     /\ pastInDir(st.geometry[st.currentWindow], st.geometry[v], dir)}

\* those of them whose near edge is within 5 pixels of the nearest one's
nearest(st, dir) ==
  {v \in qualifying(st, dir) :
     \A u \in qualifying(st, dir) :
       nearEdge(st.geometry[v], dir) < nearEdge(st.geometry[u], dir) + 5}

\* focusDir on st, with a focused window, does what C20 says, for every
\* direction and every order of the last-focused timestamps
focusDirAsStated(st) ==
  \A dir \in Dir, rank \in Recency, s \in Screen :
    LET r == focusDir(st, dir, rank, s)
    IN /\ [r EXCEPT !.currentWindow = st.currentWindow] = st
       /\ IF qualifying(st, dir) = {}
          THEN r.currentWindow = st.currentWindow
          ELSE /\ r.currentWindow \in nearest(st, dir)
               /\ \A v \in nearest(st, dir) : rank[r.currentWindow] <= rank[v]

\* three full-width tiles of height 100 at y = 0, 100, 200, window c focused,
\* in an engine that has handled no call yet
ThreeTiles(c) ==
  [Cur EXCEPT !.list = <<1, 2, 3>>,
              !.state = [w \in Win |-> IF w <= 3 THEN "Tiled" ELSE "Unmanaged"],
              !.minimized = [w \in Win |-> FALSE],
              !.group = [w \in Win |-> NoGroup],
              !.screen = [w \in Win |-> 0],
              !.geometry = [w \in Win |->
                 IF w <= 3 THEN Rect(0, (w - 1) * 100, ScreenWidth, 100)
                 ELSE NoRect],
              !.currentWindow = c]

C19_DragRelease ==
  \A w \in Elems(list), d \in Drops \cup {<<0, 0>>, <<-20, -24>>, <<0, 30>>} :
    LET actual == movedBy(geometry[w], d)
        r == onWindowMoveOver(Cur, w, actual)
        far == d[1] * d[1] + d[2] * d[2] > 900
    IN IF config.untileByDragging /\ state[w] = "Tiled" /\ far
       THEN /\ r.state[w] = "Floating"
            /\ r.floatGeometry[w] = actual
       ELSE /\ r.state = state
            /\ r.geometry = geometry
            /\ r.floatGeometry = floatGeometry
            /\ \E i \in 1..Len(r.log) : r.log[i].k = "recommit" /\ r.log[i].w = w

\* a drag has ended far from the tile, and the window floats where it was
\* dropped
C19_Witness ==
  /\ hist.op = "moveOver"
  /\ \E w \in Elems(list) :
       /\ state[w] = "Floating"
       /\ floatGeometry[w] = movedBy(geometry[w], <<31, 0>>)

\* C18: a window that becomes shaded becomes Floating, and when it is
\* unshaded its state is the state it had just before it was shaded, whatever
\* that state was.
C18_ShadeRestores ==
  \A w \in Elems(list) :
    ~shaded[w] =>
      LET a == onWindowShadeChanged(shadeFlipped(Cur, w), w)
          b == onWindowShadeChanged(shadeFlipped(a, w), w)
      IN /\ a.state[w] = "Floating"
         /\ b.state[w] = state[w]

(***************************************************************************)
(* Window Store: what move and swap leave alone.                            *)
(***************************************************************************)
\* the list l without the window w
without(l, w) == SelectSeq(l, LAMBDA x : x # w)

\* C21: move(src, dest, after) keeps the other windows in the order they had,
\* wherever src and dest were, and neither adds nor removes a window.
C21_MoveKeepsOthers ==
  lastCall.op = "move" =>
    /\ without(list, lastCall.a) = without(lastCall.before, lastCall.a)
    /\ Len(list) = Len(lastCall.before)

\* move was called with two stored windows and a third between or beside them,
\* and it changed the list
C21_Witness ==
  /\ lastCall.op = "move"
  /\ NoDup(lastCall.before)
  /\ Len(lastCall.before) >= 3
  /\ contains(lastCall.before, lastCall.a)
  /\ contains(lastCall.before, lastCall.b)
  /\ lastCall.a # lastCall.b
  /\ list # lastCall.before

\* C22: swap(a, b) with both windows stored puts a where b was and b where a
\* was and leaves every other index as it was, so that a second swap(a, b)
\* restores the list; with a or b absent the list is unchanged.
C22_SwapExchanges ==
  (lastCall.op = "swap" /\ NoDup(lastCall.before)) =>
    LET a == lastCall.a
        b == lastCall.b
        before == lastCall.before
    IN IF contains(before, a) /\ contains(before, b)
       THEN /\ Len(list) = Len(before)
            /\ indexOf(list, a) = indexOf(before, b)
            /\ indexOf(list, b) = indexOf(before, a)
            /\ \A i \in 1..Len(before) :
                 before[i] \notin {a, b} => list[i] = before[i]
            /\ swap(list, a, b) = before
       ELSE list = before

\* swap was called with two distinct stored windows of a store of three
C22_Witness ==
  /\ lastCall.op = "swap"
  /\ NoDup(lastCall.before)
  /\ Len(lastCall.before) >= 3
  /\ contains(lastCall.before, lastCall.a)
  /\ contains(lastCall.before, lastCall.b)
  /\ lastCall.a # lastCall.b
  /\ list # lastCall.before

\* how many times the steps in log commit window w within an arrangement
commits(log, w) ==
  Cardinality({i \in 1..Len(log) : log[i].k = "commit" /\ log[i].w = w})

\* C23: committing the arrangement of a surface gives that surface to, and
\* commits exactly once, every stored window that is on the surface, floating
\* and minimized windows too, and commits no window that is not on it.
C23_CommitsWindowsOnSurface ==
  \A s \in Screen :
    LET r == commitArrangement(Cur, s)
    IN \A w \in Win :
         IF contains(list, w) /\ (wscreen[w] = s \/ group[w] \in surfaceGroups[s])
         THEN commits(r.log, w) = 1 /\ surfaceOf(r, w) = s
         ELSE commits(r.log, w) = 0 /\ surfaceOf(r, w) = wscreen[w]

\* the last handler committed a minimized window and a floating window on a
\* surface while another stored window was not on that surface
C23_Witness ==
  \E s \in Screen, m, f, o \in Elems(list) :
    /\ minimized[m] /\ state[f] = "Floating" /\ ~minimized[f]
    /\ on(Cur, m, s) /\ on(Cur, f, s) /\ ~on(Cur, o, s)
    /\ \E i, j \in 1..Len(evlog) :
         /\ evlog[i] = Event("commit", s, m, 0)
         /\ evlog[j] = Event("commit", s, f, 0)

\* the steps of log from step i on are followed by an arrangement of surface
\* s that runs up to the commit of window w
arrangedAfter(log, i, s, w) ==
  \E j, k \in (i + 1)..Len(log) :
    /\ j < k
    /\ log[j].k = "classify" /\ log[j].s = s
    /\ log[k] = Event("commit", s, w, 0)

\* every state that the steps in log assign to a window is followed by an
\* arrangement of the surface the window has after them in r
statesArranged(r) ==
  \A i \in 1..Len(r.log) :
    r.log[i].k = "state" =>
      /\ r.log[i].s = surfaceOf(r, r.log[i].w)
      /\ arrangedAfter(r.log, i, r.log[i].s, r.log[i].w)

\* C24: a change of a window's state by toggleFloat, by shading or unshading
\* and by a drop far from the tile is followed, in the same handler, by an
\* arrangement of the window's surface.
C24_StateChangeArranged ==
  /\ statesArranged([Cur EXCEPT !.log = evlog])
  /\ \A w \in Elems(list) :
       /\ LET r == toggleFloat(Cur, w)
          IN /\ r.state[w] # state[w] => \E i \in 1..Len(r.log) : r.log[i].k = "state"
             /\ statesArranged(r)
       /\ LET r == onWindowShadeChanged(shadeFlipped(Cur, w), w)
          IN /\ r.state[w] # state[w] => \E i \in 1..Len(r.log) : r.log[i].k = "state"
             /\ statesArranged(r)
       /\ \A d \in Drops :
            LET r == onWindowMoveOver(Cur, w, movedBy(geometry[w], d))
            IN /\ r.state[w] # state[w] =>
                    \E i \in 1..Len(r.log) : r.log[i].k = "state"
               /\ statesArranged(r)

\* the last handler unshaded a window, which changed its state, and arranged
\* its surface
C24_Witness ==
  /\ hist.op = "unshade"
  /\ state[hist.w] # "Floating"
  /\ \E i \in 1..Len(evlog) :
       /\ evlog[i] = Event("state", wscreen[hist.w], hist.w, 0)
       /\ arrangedAfter(evlog, i, wscreen[hist.w], hist.w)

tilingAsNow(r) ==
  /\ r.list = list
  /\ r.state = state
  /\ r.nmt = numMasterTiles
  /\ \A v \in Win \ Elems(list) :
       contains(manage(arrives(r, v, 0, FALSE), v).list, v)

\* C26: arrange(null), unmanage of a window that is not stored, and the
\* shortcuts swapOrder, moveToMasterStack, cycleWindowBetweenStacks,
\* swapDirOrMoveFloat and moveToSurfaceDir without a current window change
\* neither the order of the store nor a window's state nor a numMasterTiles,
\* and the engine goes on taking windows.
C26_MissingContextNoOp ==
  /\ tilingAsNow(arrange(Cur, NoSurface))
  /\ \A w \in Win \ Elems(list), s \in Screen :
       tilingAsNow(unmanage(arrives(Cur, w, s, FALSE), w))
  /\ \A k \in Shortcut, dir \in Dir, rank \in Recency :
       tilingAsNow(shortcut([Cur EXCEPT !.currentWindow = NoWin], k, dir, rank))

\* the steps in log tell the user that the layout is not stackable
toldNotStackable(log) ==
  \E i \in 1..Len(log) : log[i].k = "Layout isn't stackable"

\* what C27 says of the result r of a call for window w
setAsMaster(r, w) ==
  /\ toldNotStackable(r.log)
  /\ indexOf(r.list, w) = 0
  /\ without(r.list, w) = without(list, w)
  /\ r.nmt = numMasterTiles

\* C27: on a layout without numMasterTiles, cycleWindowBetweenStacks and
\* moveToMasterStack tell the user "Layout isn't stackable", put the window
\* at index 0 of the store, and change no numMasterTiles.
C27_NotStackableSetsMaster ==
  \A w \in Elems(list) :
    ~stackable(surfaceOf(Cur, w)) =>
      /\ setAsMaster(moveToMasterStack(Cur, w), w)
      /\ setAsMaster(cycleWindowBetweenStacks([Cur EXCEPT !.currentWindow = w]), w)

\* the cycle shortcut was used on a monocle surface, with several windows
\* stored, and its window is the first of the store
C27_Witness ==
  /\ hist.op = "cycle"
  /\ ~stackable(wscreen[hist.w])
  /\ Len(list) >= 2
  /\ list[1] = hist.w
  /\ savedList = list
  /\ toldNotStackable(evlog)

\* the surfaces that the steps in log arrange, in the order of the
\* arrangements
arranged(log) == SelectSeq(log, LAMBDA e : e.k = "classify")

screensShowing ==
  [s \in Screen |->
     [screen |-> s,
      group |-> IF surfaceGroups[s] = {} THEN NoGroup
                ELSE CHOOSE g \in surfaceGroups[s] : TRUE]]

\* ControllerImpl.screens: DriverImpl.screens builds a new DriverSurfaceImpl
\* for every screen at every call.  DriverSurfaceImpl declares groups (kept
\* by the proxy) and no group, so the group property of a surface just built
\* reads undefined, and what is assigned to it lasts as long as the object
screens == [s \in Screen |-> [screen |-> s, group |-> NoGroup]]

\* what swapGroupToSurface reads and writes: the store, the windows' group,
\* screen and hidden flag; deepest is the depth of the deepest call so far
swapState ==
  [list |-> list, group |-> group, screen |-> wscreen, hidden |-> hidden,
   desktop |-> wdesktop, currentDesktop |-> currentDesktop, deepest |-> 0]

\* win.window.hidden = true for every window on surface s
hideOn(st, s) ==
  [st EXCEPT !.hidden =
     [w \in Win |-> contains(allWindowsOn(st, s), w) \/ st.hidden[w]]]

\* win.window.surface = surf for every window on it: DriverWindowImpl's
\* setter takes the screen (and the desktop) of the surface
unhideOn(st, surf) ==
  [st EXCEPT !.screen =
     [w \in Win |-> IF contains(allWindowsOn(st, surf.screen), w)
                    THEN surf.screen ELSE st.screen[w]]]

\* ControllerImpl.swapGroupToSurface; depth counts the calls on the stack, and
\* a call deeper than the number of surfaces is recorded and not followed
RECURSIVE swapGroupToSurface(_, _, _, _)
swapGroupToSurface(st, groupId, screen, depth) ==
  LET toSurface == screens[screen]
      swapOutGroup == toSurface.group
      hid == [hideOn(st, screen) EXCEPT !.deepest = Max({@, depth})]
      found == {s \in Screen : s # screen /\ screens[s].group = groupId}
      fromSurface == IF found = {} THEN NoSurface ELSE Min(found)
      \* toSurface.group = -1, on the object built above, and the call
      swapped ==
        IF fromSurface = NoSurface \/ depth > NumScreens THEN hid
        ELSE swapGroupToSurface(hid, swapOutGroup, fromSurface, depth + 1)
      mapped == [toSurface EXCEPT !.group = groupId]
  IN unhideOn(swapped, mapped)

SwapGroupToSurface(g, s) ==
  /\ Within
  /\ LET r == swapGroupToSurface(swapState, g, s, 1)
     IN /\ hidden' = r.hidden
        /\ wscreen' = r.screen
        /\ evlog' = <<[k |-> "swapGroupToSurface", s |-> s, w |-> NoWin,
                       n |-> r.deepest, g |-> g]>>
  /\ hist' = Did("swapGroupToSurface")
  /\ UNCHANGED <<list, state, minimized, group, geometry, numMasterTiles,
                 currentWindow, savedList, shaded,
                 statePreviouslyAskedToChangeTo, floatGeometry,
                 lastMoveTarget, wdesktop, currentDesktop, desktops,
                 config, layoutOf, surfaceGroups>>
  /\ UNCHANGED <<live, dupPushed, lastCall, driverVars>>
  /\ UNCHANGED <<windowMap, bound, clientList, gone, ignoredClients,
                 removedRan, started>>

\* the groups a surface may display at the start: none, one or two
Shown == {{}, {"a"}, {"b"}, {"a", "b"}}

\* floating windows, each of a group and on a screen, and surfaces that
\* display any groups, the same group on several surfaces included
SwapInit ==
  /\ DriverFresh
  /\ list = [i \in 1..NumWin |-> i]
  /\ live = Win
  /\ dupPushed = FALSE
  /\ lastCall = NoCall
  /\ state = [w \in Win |-> "Floating"]
  /\ minimized = [w \in Win |-> FALSE]
  /\ group \in [Win -> {"a", "b"}]
  /\ wscreen \in [Win -> Screen]
  /\ geometry = [w \in Win |-> placement(wscreen[w])]
  /\ numMasterTiles = [s \in Screen |-> 1]
  /\ currentWindow = NoWin
  /\ savedList = list
  /\ shaded = [w \in Win |-> FALSE]
  /\ statePreviouslyAskedToChangeTo = [w \in Win |-> "Unmanaged"]
  /\ floatGeometry = geometry
  /\ hidden = [w \in Win |-> FALSE]
  /\ lastMoveTarget = NoWin
  /\ wdesktop = [w \in Win |-> 1]
  /\ currentDesktop = 1
  /\ desktops = 2
  /\ windowMap = {}
  /\ bound = {}
  /\ clientList = {}
  /\ gone = {}
  /\ ignoredClients = {}
  /\ removedRan = {}
  /\ started = TRUE
  /\ config = [DefaultConfig EXCEPT !.newWindowSpawnLocation = "floating"]
  /\ layoutOf = [s \in Screen |-> "tile"]
  /\ surfaceGroups \in [Screen -> Shown]
  /\ evlog = <<>>
  /\ hist = NoHist

SwapNext == \E g \in Group, s \in Screen : SwapGroupToSurface(g, s)

SpecSwap == SwapInit /\ [][SwapNext]_vars

(***************************************************************************)
(* Properties of swapGroupToSurface.                                        *)
(***************************************************************************)
\* the surfaces that display group g
displaying(g) == {s \in Screen : g \in surfaceGroups[s]}

\* every group is displayed on at most one surface
atMostOnce == \A g \in Group : Cardinality(displaying(g)) <= 1

\* C29: when every group is displayed on at most one surface, after
\* swapGroupToSurface(g, s) surface s displays g, no other surface displays
\* g, the surface that displayed g before displays what s displayed before,
\* and every group is still displayed on at most one surface.
C29_SwapDisplaysGroup ==
  [][\A g \in Group, s \in Screen :
       (atMostOnce /\ SwapGroupToSurface(g, s)) =>
         /\ g \in surfaceGroups'[s]
         /\ \A o \in Screen \ {s} : g \notin surfaceGroups'[o]
         /\ \A o \in displaying(g) \ {s} : surfaceGroups'[o] = surfaceGroups[s]
         /\ \A h \in Group :
              Cardinality({o \in Screen : h \in surfaceGroups'[o]}) <= 1]_vars

\* C30: swapGroupToSurface(g, s) returns for every group, every surface and
\* every assignment of groups to surfaces, and no call of it is deeper than
\* the number of surfaces.
C30_SwapTerminates ==
  \A g \in Group, s \in Screen :
    LET r == swapGroupToSurface(swapState, g, s, 1)
    IN /\ r.deepest >= 1
       /\ r.deepest <= NumScreens

\* it was called for a group that two surfaces display
C30_Witness ==
  /\ hist.op = "swapGroupToSurface"
  /\ Len(evlog) = 1
  /\ Cardinality(displaying(evlog[1].g)) = 2
  /\ evlog[1].n <= NumScreens
  /\ \E w \in Win : hidden[w]

(***************************************************************************)
(* The current desktop changes.  The last desktop is kept for the hidden    *)
(* windows; the windows have no group here and the surfaces display none.   *)
(***************************************************************************)
MaxDesktops == 3     \* how many virtual desktops the host may have

\* ControllerImpl.showNotification with a screen: -1 is every screen, one
\* after the other (-k stands for the rest of that loop, from screen k - 1)
RECURSIVE showNotificationOn(_, _, _, _)
showNotificationOn(st, text, n, screen) ==
  IF screen >= 0
  THEN [st EXCEPT !.log = Append(st.log, Event(text, screen, NoWin, n))]
  ELSE IF -screen > NumScreens THEN st
  ELSE showNotificationOn(showNotificationOn(st, text, n, -screen - 1),
                          text, n, screen - 1)

RECURSIVE surfaceEach(_, _, _)
\* onCurrentDesktopChanged's inner loop: win.window.surface = surf, which
\* sets the screen and the desktop of the window
surfaceEach(st, s, ws) ==
  IF ws = <<>> THEN st
  ELSE surfaceEach([st EXCEPT !.screen[Head(ws)] = s,
                              !.desktop[Head(ws)] = st.currentDesktop,
                              !.log = Append(st.log, Event("surface", s, Head(ws), 0))],
                   s, Tail(ws))

RECURSIVE shownFrom(_, _)
\* onCurrentDesktopChanged's loop over screens(), from screen s on: the
\* layout is announced and the windows on the surface are given it
shownFrom(st, s) ==
  IF s >= NumScreens THEN st
  ELSE shownFrom(surfaceEach(showNotificationOn(st, layoutOf[s], 0, s), s,
                             allWindowsOn(st, s)),
                 s + 1)

RECURSIVE arrangeFrom(_, _)
\* EngineImpl.arrange(): every screen of the current desktop, from s on
arrangeFrom(st, s) ==
  IF s >= NumScreens THEN st ELSE arrangeFrom(arrange(st, s), s + 1)

\* an onCurrentDesktopChanged that goes on after it has left the hidden
\* desktop
onCurrentDesktopChangedNoReturn(st) ==
  LET back == IF st.currentDesktop = st.desktops
              THEN [showNotificationOn(st, "Don't use desktop",
                                       st.currentDesktop, -1)
                      EXCEPT !.currentDesktop = st.currentDesktop - 1]
              ELSE st
  IN arrangeFrom(shownFrom(back, 0), 0)

\* ControllerImpl.onCurrentDesktopChanged.  The host emits
\* currentDesktopChanged again when the handler sets the desktop back; that
\* signal comes while DriverImpl.entered is true and enter drops it
onCurrentDesktopChanged(st) ==
  IF st.currentDesktop = st.desktops
  THEN [showNotificationOn(st, "Don't use desktop", st.currentDesktop, -1)
          EXCEPT !.currentDesktop = st.currentDesktop - 1]
  ELSE arrangeFrom(shownFrom(st, 0), 0)

\* DriverImpl.onNumberDesktopsChanged: a lone desktop gets a second one
onNumberDesktopsChanged(st) ==
  IF st.desktops < 2 THEN [st EXCEPT !.desktops = st.desktops + 1] ELSE st

\* currentDesktopChanged: the user goes to desktop d, the hidden one included
OnCurrentDesktopChanged(d) ==
  /\ Within
  /\ d \in 1..desktops
  /\ d # currentDesktop
  /\ Becomes(onCurrentDesktopChanged([Cur EXCEPT !.currentDesktop = d]))
  /\ hist' = [Did("desktop") EXCEPT !.nmt = d]

\* numberDesktopsChanged: the user adds desktops, or removes desktops past
\* the current one that hold no window
OnNumberDesktopsChanged(n) ==
  /\ Within
  /\ n # desktops
  /\ n >= currentDesktop
  /\ \A w \in Elems(list) : wdesktop[w] <= n
  /\ Becomes(onNumberDesktopsChanged([Cur EXCEPT !.desktops = n]))
  /\ hist' = Did("desktops")

\* a run starts with up to NumWin arranged tiles on the first desktop, which
\* is or is not the current one, and two or more desktops
DesktopInit ==
  /\ DriverFresh
  /\ live = {}
  /\ dupPushed = FALSE
  /\ lastCall = NoCall
  /\ config = DefaultConfig
  /\ layoutOf \in Layouts
  /\ surfaceGroups = [s \in Screen |-> {}]
  /\ desktops \in 2..MaxDesktops
  /\ windowMap = {}
  /\ bound = {}
  /\ clientList = {}
  /\ gone = {}
  /\ ignoredClients = {}
  /\ removedRan = {}
  /\ started = TRUE
  /\ currentDesktop \in 1..(desktops - 1)
  /\ \E k \in 0..NumWin :
       LET r == Tiling(k, 1)
       IN /\ list = r.list
          /\ state = r.state
          /\ minimized = r.minimized
          /\ group = r.group
          /\ wscreen = r.screen
          /\ geometry = r.geometry
          /\ numMasterTiles = r.nmt
          /\ currentWindow = r.currentWindow
          /\ savedList = r.saved
          /\ shaded = r.shaded
          /\ statePreviouslyAskedToChangeTo = r.asked
          /\ floatGeometry = r.floatGeometry
          /\ lastMoveTarget = r.lastMoveTarget
          /\ wdesktop = r.desktop
  /\ hidden = [w \in Win |-> FALSE]
  /\ evlog = <<>>
  /\ hist = NoHist

DesktopNext ==
  \/ \E d \in 1..MaxDesktops : OnCurrentDesktopChanged(d)
  \/ \E n \in 1..MaxDesktops : OnNumberDesktopsChanged(n)

SpecDesktop == DesktopInit /\ [][DesktopNext]_vars

(***************************************************************************)
(* Properties of the change of desktop.                                     *)
(***************************************************************************)
\* the notes of log with the text "Don't use desktop" for screen s
refusals(log, s) ==
  SelectSeq(log, LAMBDA e : e.k = "Don't use desktop" /\ e.s = s)

\* C33: when the current desktop has become the last, hidden desktop,
\* onCurrentDesktopChanged sets the current desktop back by one, notifies
\* every screen, arranges no surface and gives no window a surface; the
\* current desktop is then not the hidden one.
C33_HiddenDesktopRefused ==
  LET r == onCurrentDesktopChanged([Cur EXCEPT !.currentDesktop = desktops])
  IN /\ r.currentDesktop = desktops - 1
     /\ r.desktops = desktops
     /\ r.currentDesktop # r.desktops
     /\ r.currentDesktop >= 1
     /\ \A s \in Screen : Len(refusals(r.log, s)) = 1
     /\ \A i \in 1..Len(r.log) : r.log[i].k = "Don't use desktop"
     /\ r.screen = wscreen
     /\ r.desktop = wdesktop
     /\ r.geometry = geometry
     /\ r.state = state

\* the user went to the hidden desktop, with windows on the first, and is
\* back on the desktop before it
C33_Witness ==
  /\ hist.op = "desktop"
  /\ hist.nmt = desktops
  /\ currentDesktop = desktops - 1
  /\ list # <<>>
  /\ \A s \in Screen : Len(refusals(evlog, s)) = 1

(***************************************************************************)
(* Properties of the drag.                                                  *)
(***************************************************************************)
\* how many of the steps a -> b -> c changed the order of the store
reorders(a, b, c) ==
  (IF a.list # b.list THEN 1 ELSE 0) + (IF b.list # c.list THEN 1 ELSE 0)

\* how many of the steps a -> b -> c changed a numMasterTiles
recounts(a, b, c) ==
  (IF a.nmt # b.nmt THEN 1 ELSE 0) + (IF b.nmt # c.nmt THEN 1 ELSE 0)

\* C31: two consecutive onWindowMove events of a dragged tile whose centre is
\* over the same target tile in both reorder the store at most once and
\* change numMasterTiles at most once, whichever branch the first takes; an
\* event with the centre over no tile clears the remembered target.
C31_DragDampened ==
  \A w \in Elems(list), p \in DragPoints, q \in DragPoints, s \in Screen :
    LET first == onWindowMove(Cur, w, p, s)
        second == onWindowMove(first, w, q, s)
        over == targetsAt(Cur, w, p, s)
        still == targetsAt(first, w, q, s)
    IN (state[w] = "Tiled" /\ ~minimized[w]) =>
         /\ over = <<>> => first.lastMoveTarget = NoWin
         /\ (over # <<>> /\ still # <<>> /\ over[1] = still[1]) =>
              /\ reorders(Cur, first, second) <= 1
              /\ recounts(Cur, first, second) <= 1

MaxSaved == 2        \* length of the window list cached by the last session

\* a WrapperMap that hands out a wrapper for a key it already has
addThrowsNever(map, client) == FALSE

\* WrapperMap.add: throws when the key of the client is already in the map
addThrows(map, client) == client \in map

\* the driver's window map and bound handlers next to the engine's fields
Drv ==
  [windowMap |-> windowMap, bound |-> bound,
   st |-> [Cur EXCEPT !.ignored = [w \in Win |-> w \in ignoredClients]]]

\* a manageWindow that treats an ignored client like any other
manageWindowKeepsIgnored(d, client) ==
  IF addThrows(d.windowMap, client) THEN d
  ELSE [d EXCEPT !.windowMap = @ \cup {client}, !.bound = @ \cup {client}]

\* DriverImpl.manageWindow: the wrapper of an ignored client is taken out of
\* the map again and null is returned; the others get their handlers bound.
\* The group read from the surface is undefined, so the window keeps its own
manageWindow(d, client) ==
  IF addThrows(d.windowMap, client) THEN d
  ELSE IF shouldIgnore(d.st, client)
  THEN [d EXCEPT !.st.group[client] = NoGroup]
  ELSE [d EXCEPT !.windowMap = @ \cup {client}, !.bound = @ \cup {client}]

RECURSIVE inOrder(_, _)
\* the clients of a set in the order of clientList(), from a number on
inOrder(cs, from) ==
  IF from > NumWin THEN <<>>
  ELSE (IF from \in cs THEN <<from>> ELSE <<>>) \o inOrder(cs, from + 1)

\* what getWindowState gives for the window ids: the saved WindowConfig
WindowConfigs == {[w \in Win |-> k] : k \in {"minimized", "Floating", "Tiled"}}

RECURSIVE restoreCached(_, _, _, _)
\* restoreWindows, first loop: for every id of the cached list the first of
\* the windows that has the id and is not ignored gets its saved state and is
\* pushed
restoreCached(st, ids, windows, cfg) ==
  IF ids = <<>> THEN st
  ELSE LET id == Head(ids)
           s1 == IF contains(windows, id) /\ ~shouldIgnore(st, id)
                 THEN [st EXCEPT
                         !.minimized[id] = IF cfg[id] = "minimized" THEN TRUE
                                           ELSE @,
                         !.state[id] = IF cfg[id] = "Floating" THEN "Floating"
                                       ELSE "Undecided",
                         !.list = push(st.list, id)]
                 ELSE st
       IN restoreCached(s1, Tail(ids), windows, cfg)

RECURSIVE restoreOthers(_, _)
\* restoreWindows, second loop: the windows that the store does not contain
\* yet and that are not ignored are pushed as Undecided
restoreOthers(st, windows) ==
  IF windows = <<>> THEN st
  ELSE LET window == Head(windows)
           s1 == IF ~contains(st.list, window) /\ ~shouldIgnore(st, window)
                 THEN [st EXCEPT !.state[window] = "Undecided",
                                 !.list = push(st.list, window)]
                 ELSE st
       IN restoreOthers(s1, Tail(windows))

\* EngineImpl.restoreWindows
restoreWindows(st, windows, cfg) ==
  restoreOthers(restoreCached(st, st.saved, windows, cfg), windows)

RECURSIVE manageEach(_, _)
\* the loop of manageWindows over clientList()
manageEach(d, clients) ==
  IF clients = <<>> THEN d
  ELSE manageEach(manageWindow(d, Head(clients)), Tail(clients))

\* DriverImpl.manageWindows: manageWindow for every client, then
\* restoreWindows with the windows that manageWindow returned
manageWindows(d, clients, cfg) ==
  LET d1 == manageEach(d, clients)
      windows == SelectSeq(clients, LAMBDA c : c \in d1.windowMap)
  IN [d1 EXCEPT !.st = restoreWindows(d1.st, windows, cfg)]

RECURSIVE found(_, _)
\* the wrappers read the clients that the host had before the script started:
\* they are on the first screen, on the current desktop
found(st, clients) ==
  IF clients = <<>> THEN st
  ELSE found(IF shouldIgnore(st, Head(clients)) THEN st
             ELSE arrives(st, Head(clients), 0, FALSE),
             Tail(clients))

RECURSIVE layoutsShownFrom(_, _)
\* the last loop of start: the layout of every screen is announced
layoutsShownFrom(st, s) ==
  IF s >= NumScreens THEN st
  ELSE layoutsShownFrom(showNotificationOn(st, layoutOf[s], 0, s), s + 1)

\* ControllerImpl.start: manageWindows, engine.arrange(), the notifications
start(d, clients, cfg) ==
  LET d1 == manageWindows([d EXCEPT !.st = found(d.st, clients)], clients, cfg)
  IN [d1 EXCEPT !.st = layoutsShownFrom(arrangeFrom(d1.st, 0), 0)]

\* ControllerImpl.onWindowAdded
onWindowAdded(st, window) ==
  LET r == manage(st, window)
  IN arrange(r, surfaceOf(r, window))

\* DriverImpl.bindEvents, onClientAdded: add throws for a client that has a
\* wrapper and enter catches it; a window that is still Unmanaged after
\* onWindowAdded is taken out of the map, the others get their handlers bound
onClientAdded(d, client, s) ==
  IF addThrows(d.windowMap, client) THEN d
  ELSE LET r == onWindowAdded(arrives(d.st, client, s, FALSE), client)
       IN IF r.state[client] = "Unmanaged"
          THEN [d EXCEPT !.st = forget(r, client)]
          ELSE [d EXCEPT !.st = r, !.windowMap = @ \cup {client},
                         !.bound = @ \cup {client}]

\* DriverImpl.bindEvents, onClientRemoved: only a client that has a wrapper
\* is handed to onWindowRemoved, and its wrapper is dropped
onClientRemoved(d, client) ==
  IF client \in d.windowMap
  THEN [d EXCEPT !.st = forget(unmanage(d.st, client), client),
                 !.windowMap = @ \ {client}]
  ELSE d

HostWrites(d) ==
  /\ Writes(d.st)
  /\ windowMap' = d.windowMap
  /\ bound' = d.bound

\* ControllerImpl.start, once, before any signal
Start ==
  /\ ~started
  /\ \E cfg \in WindowConfigs :
       HostWrites(start(Drv, inOrder(clientList, 1), cfg))
  /\ started' = TRUE
  /\ hist' = Did("start")
  /\ UNCHANGED <<clientList, gone, ignoredClients, removedRan>>

\* the clients are numbered as the host creates them
nextClient(w) == \A v \in Win : v < w => v \in clientList \cup gone

\* clientAdded while no handler runs, for a new client or once more for a
\* client that the host has
ClientAdded(w, s) ==
  /\ started
  /\ Within
  /\ w \notin gone
  /\ nextClient(w)
  /\ numMasterTiles[s] < MaxMaster
  /\ HostWrites(onClientAdded(Drv, w, s))
  /\ clientList' = clientList \cup {w}
  /\ hist' = [Did(IF addThrows(windowMap, w) THEN "refused" ELSE "clientAdded")
              EXCEPT !.w = w]
  /\ UNCHANGED <<gone, ignoredClients, removedRan, started>>

\* clientRemoved while no handler runs, for a client that the host deletes or
\* once more for one that it has deleted
ClientRemoved(w) ==
  /\ started
  /\ Within
  /\ w \in clientList \cup gone
  /\ HostWrites(onClientRemoved(Drv, w))
  /\ clientList' = clientList \ {w}
  /\ gone' = gone \cup {w}
  /\ removedRan' = removedRan \cup {w}
  /\ hist' = [Did("clientRemoved") EXCEPT !.w = w]
  /\ UNCHANGED <<ignoredClients, started>>

\* clientAdded emitted while a handler runs: enter returns at once, the
\* client is in the host and the script has not heard of it
ClientAddedDropped(w) ==
  /\ started
  /\ Within
  /\ enterReturnsEarly(TRUE)
  /\ w \notin clientList \cup gone
  /\ nextClient(w)
  /\ clientList' = clientList \cup {w}
  /\ hist' = [Did("dropped") EXCEPT !.w = w]
  /\ UNCHANGED <<storeVars, driverVars, state, minimized, group, wscreen,
                 geometry, numMasterTiles, currentWindow, savedList, shaded,
                 statePreviouslyAskedToChangeTo, floatGeometry, hidden,
                 lastMoveTarget, wdesktop, currentDesktop, desktops,
                 windowMap, bound, gone, ignoredClients, removedRan, started,
                 config, layoutOf, surfaceGroups, evlog>>

\* clientRemoved emitted while a handler runs: enter returns at once, the
\* client is deleted and the script keeps what it had of it
ClientRemovedDropped(w) ==
  /\ started
  /\ Within
  /\ enterReturnsEarly(TRUE)
  /\ w \in clientList
  /\ clientList' = clientList \ {w}
  /\ gone' = gone \cup {w}
  /\ hist' = [Did("dropped") EXCEPT !.w = w]
  /\ UNCHANGED <<storeVars, driverVars, state, minimized, group, wscreen,
                 geometry, numMasterTiles, currentWindow, savedList, shaded,
                 statePreviouslyAskedToChangeTo, floatGeometry, hidden,
                 lastMoveTarget, wdesktop, currentDesktop, desktops,
                 windowMap, bound, ignoredClients, removedRan, started,
                 config, layoutOf, surfaceGroups, evlog>>

\* a signal of a client's own: only the clients whose handlers were bound
\* have any, and a deleted client emits none
ClientSignal(w) ==
  /\ started
  /\ w \in bound \cap clientList
  /\ \/ OnWindowFocused(w)
     \/ OnWindowMinimized(w)
     \/ OnWindowUnminimized(w)

\* the window lists that the last session can have left in the cache
SavedLists ==
  {l \in UNION {[1..n -> Win] : n \in 0..MaxSaved} : NoDup(l)}

HostInit ==
  /\ StoreFresh
  /\ DriverFresh
  /\ state = [w \in Win |-> "Unmanaged"]
  /\ minimized = [w \in Win |-> FALSE]
  /\ group = [w \in Win |-> NoGroup]
  /\ wscreen = [w \in Win |-> 0]
  /\ geometry = [w \in Win |-> NoRect]
  /\ numMasterTiles = [s \in Screen |-> 1]
  /\ currentWindow = NoWin
  /\ savedList \in SavedLists
  /\ shaded = [w \in Win |-> FALSE]
  /\ statePreviouslyAskedToChangeTo = [w \in Win |-> "Unmanaged"]
  /\ floatGeometry = [w \in Win |-> NoRect]
  /\ hidden = [w \in Win |-> FALSE]
  /\ lastMoveTarget = NoWin
  /\ wdesktop = [w \in Win |-> 1]
  /\ currentDesktop = 1
  /\ desktops = 2
  /\ windowMap = {}
  /\ bound = {}
  /\ \E k \in 0..NumWin : clientList = 1..k
  /\ gone = {}
  /\ ignoredClients \in SUBSET Win
  /\ removedRan = {}
  /\ started = FALSE
  /\ config = DefaultConfig
  /\ layoutOf = [s \in Screen |-> "tile"]
  /\ surfaceGroups = [s \in Screen |-> {}]
  /\ evlog = <<>>
  /\ hist = NoHist

HostNext ==
  \/ Start
  \/ \E w \in Win, s \in Screen : ClientAdded(w, s)
  \/ \E w \in Win : ClientRemoved(w)
  \/ \E w \in Win : ClientAddedDropped(w)
  \/ \E w \in Win : ClientRemovedDropped(w)
  \/ \E w \in Win : ClientSignal(w)

SpecHost == HostInit /\ [][HostNext]_vars

(***************************************************************************)
(* Claims about the driver's host callbacks.                                *)
(***************************************************************************)
\* C34: a client that the policy ignores and that the host has announced, by
\* clientAdded or in clientList() at the start, is not in the Window Store,
\* has no handlers of its own bound and is not in the driver's window map
\* once the handler has returned.
C34_IgnoredClientLeavesNoTrace ==
  \A w \in ignoredClients :
    (started /\ w \in clientList \cup gone) =>
      /\ ~contains(list, w)
      /\ w \notin bound
      /\ w \notin windowMap

\* the host has announced an ignored client by clientAdded, after a start with
\* another ignored client in clientList(), and a client is managed
C34_Witness ==
  /\ hist.op = "clientAdded"
  /\ hist.w \in ignoredClients
  /\ \E v \in ignoredClients : v < hist.w
  /\ windowMap # {}

(***************************************************************************)
(* Claims about the order of the store and the size of the master stack.    *)
(***************************************************************************)
\* C35: swapOrder(w, step) on a visible window w swaps it with the next
\* (step = 1) or the previous (step = -1) visible window of its surface,
\* wrapping at both ends: w and that window have traded their places in the
\* store and every other window is where it was; with fewer than two
\* visible windows the store does not change.
C35_SwapOrderTrades ==
  \A w \in Elems(list), step \in {-1, 1} :
    LET srf == surfaceOf(Cur, w)
        visibles == visibleWindowsOn(Cur, srf)
        other == at(visibles, wrapIndex(indexOf(visibles, w) + step,
                                        Len(visibles)))
        r == swapOrder(Cur, w, step)
    IN visibleOn(Cur, w, srf) =>
         IF Len(visibles) < 2 THEN r.list = list
         ELSE /\ indexOf(r.list, w) = indexOf(list, other)
              /\ indexOf(r.list, other) = indexOf(list, w)
              /\ \A v \in Elems(list) \ {w, other} :
                   indexOf(r.list, v) = indexOf(list, v)

\* C36: onWindowMinimized(w) followed at once by onWindowUnminimized(w), for a
\* visible tile w of a surface whose layout has a master stack, leaves
\* numMasterTiles of the surface as it was before the minimize, for a window
\* of the master stack and for a window of the stack region.
C36_MinimizeRoundTrip ==
  \A w \in Elems(list) :
    LET surf == surfaceOf(Cur, w)
        gone1 == onWindowMinimized(Cur, w)
        back == onWindowUnminimized(gone1, w)
    IN (stackable(surf) /\ tileable(Cur, w) /\ visibleOn(Cur, w, surf)) =>
         back.nmt[surf] = numMasterTiles[surf]

\* C37: numMasterTiles of no layout is ever negative, whatever sequence of
\* manage, unmanage, cycleWindowBetweenStacks, onWindowMinimized,
\* onWindowUnminimized and onWindowMove has run.
C37_MasterCountNeverNegative == \A s \in Screen : numMasterTiles[s] >= 0

\* a drag has taken the only master to the stack region: no master is left
C37_Witness ==
  /\ hist.op = "move"
  /\ hist.nmt = 1
  /\ \E s \in Screen : numMasterTiles[s] = 0 /\ Len(visibleTiledWindowsOn(Cur, s)) >= 2

\* C38: driven by the start-up and by the host's signals in any order, also
\* by signals that enter drops, the Window Store never holds a window twice
\* and never holds a window whose clientRemoved handler has run.
C38_StoreFollowsHost ==
  /\ NoDup(list)
  /\ \A w \in removedRan : ~contains(list, w)

\* the host has announced a stored client once more, and WrapperMap.add has
\* refused it, after the removal handler of another client has run
C38_Witness ==
  /\ hist.op = "refused"
  /\ contains(list, hist.w)
  /\ removedRan # {}

====
